---- MODULE Spec2Model ----
(***************************************************************************)
(* Archetype column storage, epoch hierarchy and query drivers of edict.   *)
(* Rows are indexed from 0 as in the source; arrays are functions over     *)
(* 0..n-1.  The entity vector is a sequence, row i being entities[i+1].    *)
(***************************************************************************)
EXTENDS Integers, Sequences, FiniteSets, Bags, TLC

\* ------------------------------------------------------------------ bounds

\* Number of World-level operations in one behaviour that starts from small
\* archetypes, and in one that starts from archetypes of a full chunk.
MaxSteps == 2

MaxBigSteps == 1

\* Rows of the small non-empty initial archetypes.
SmallRows == 2

\* Tokens standing for component values: serial * EntStride + owner entity.
EntStride == 1024

\* ------------------------------------------------------- program constants

CHUNK_LEN_USIZE == 256

\* Smallest non-zero capacity Vec<EntityId> grows to.
MinNonZeroCap == 4

\* EpochId::start(): the "never observed" sentinel.
EpochStart == 0

\* Component types of the modelled world and the archetypes built from them.
TypeIds == {"A", "B"}

ArchetypeSets == <<{"A"}, {"A", "B"}>>

ArchIds == DOMAIN ArchetypeSets

\* The worlds a behaviour starts from: the rows batch-spawned into each of the
\* two archetypes at the first epoch, and whether one more entity was then
\* spawned into the first archetype at the next epoch.  New archetypes, a few
\* rows, or a full chunk each with one row in the second chunk of the first.
InitialCounts ==
    {<<0, 0, FALSE>>, <<SmallRows, SmallRows - 1, FALSE>>,
     <<CHUNK_LEN_USIZE, CHUNK_LEN_USIZE, TRUE>>}

\* A slot of a column that holds no live value.
Uninit == 0

None == -1

VARIABLES
    archetypes,   \* ArchIds -> Archetype
    worldEpoch,   \* EpochCounter of the World
    debugBuild,   \* cfg(debug_assertions)
    nextEntity,   \* next EntityId the World hands out
    nextSerial,   \* next value serial
    initCounts,   \* rows each archetype started with
    created,      \* tokens moved into an archetype since the start
    expected,     \* <<entity, type>> -> the value and epoch last written
    dropped,      \* bag: token -> times its destructor ran
    movedOut,     \* bag: token -> times handed back to the caller
    worldAlive,   \* FALSE once the archetypes are dropped
    panicked,     \* a (debug) assertion failed
    steps,        \* operations performed
    lastOp,       \* the last operation, its inputs and its return values
    lastQuery,    \* the last query pass and what it yielded
    locks,        \* <<archetype, type>> -> borrow counter of the column
    queryRefs,    \* the QueryRefs: query, `borrowed`, the borrows each holds
    lastCall,     \* the last QueryRef call, its borrows and its outcome
    modifiedCache \* the ModifiedCache of a system's query argument

vars == <<archetypes, worldEpoch, debugBuild, nextEntity, nextSerial, initCounts, created,
          expected,
          dropped, movedOut, worldAlive, panicked, steps, lastOp, lastQuery,
          locks, queryRefs, lastCall, modifiedCache>>

qvars == <<locks, queryRefs, lastCall, modifiedCache>>

\* ------------------------------------------------------------------ helpers

Max(a, b) == IF a >= b THEN a ELSE b

Token(serial, entity) == serial * EntStride + entity

\* EntityId::idx()
EntityIdx(e) == e

Resize(f, oldLen, newLen, fill) ==
    [i \in 0..(newLen - 1) |-> IF i < oldLen THEN f[i] ELSE fill]

\* Vec::remove, which shifts the tail down and keeps its order.
ShiftRemove(s, idx) ==
    [i \in 1..(Len(s) - 1) |-> IF i < idx + 1 THEN s[i] ELSE s[i + 1]]

\* Vec::swap_remove
SwapRemove(s, idx) ==
    LET n == Len(s)
    IN [i \in 1..(n - 1) |-> IF i = idx + 1 THEN s[n] ELSE s[i]]

\* ------------------------------------------------------------------ EpochId

after(self, other) == self > other

before(self, other) == self < other

bump(self, to) == to

bump_ok(self, to) == before(self, to)

bump_again(self, to) == to

bump_again_ok(self, to) == ~after(self, to)

update(self, other) == Max(self, other)

\* ---------------------------------------------------------------- archetype

chunk_idx(idx) == idx \div 256

chunks_count_rounded_down(entities) == entities \div CHUNK_LEN_USIZE

\* chunks_count: the division binds before the addition.
chunks_count(entities) ==
    entities + ((CHUNK_LEN_USIZE - 1) \div CHUNK_LEN_USIZE)

first_of_chunk(idx) ==
    IF idx % CHUNK_LEN_USIZE = 0 THEN chunk_idx(idx) ELSE None

\* ArchetypeComponent::new
NewColumn ==
    [ptr |-> <<>>, epoch |-> EpochStart, entity_epochs |-> <<>>, chunk_epochs |-> <<>>]

\* Archetype::new
NewArchetype(types) ==
    [entities |-> <<>>, cap |-> 0, components |-> [t \in types |-> NewColumn]]

len(arch) == Len(arch.entities)

\* ArchetypeComponent::grow
grow_no_entity_epochs(data, length, old_cap, new_cap) ==
    [data EXCEPT
        !.ptr = Resize(data.ptr, length, new_cap, Uninit),
        !.chunk_epochs =
            Resize(data.chunk_epochs, chunks_count(old_cap), chunks_count(new_cap), EpochStart)]

\* grow that leaves chunk_epochs at its old length.
grow_keeps_chunk_epochs(data, length, old_cap, new_cap) ==
    [data EXCEPT
        !.ptr = Resize(data.ptr, length, new_cap, Uninit),
        !.entity_epochs = Resize(data.entity_epochs, old_cap, new_cap, EpochStart)]

grow(data, length, old_cap, new_cap) ==
    [data EXCEPT
        !.ptr = Resize(data.ptr, length, new_cap, Uninit),
        !.entity_epochs = Resize(data.entity_epochs, old_cap, new_cap, EpochStart),
        !.chunk_epochs =
            Resize(data.chunk_epochs, chunks_count(old_cap), chunks_count(new_cap), EpochStart)]

\* Vec::reserve: amortized doubling
VecReserve(cap, length, additional) ==
    Max(MinNonZeroCap, Max(cap * 2, length + additional))

\* reserve that grows every column as if it held nothing.
reserve_as_empty(arch, additional) ==
    IF additional <= arch.cap - len(arch)
    THEN arch
    ELSE LET new_cap == VecReserve(arch.cap, len(arch), additional)
         IN [arch EXCEPT
                !.cap = new_cap,
                !.components = [t \in DOMAIN @ |-> grow(NewColumn, 0, 0, new_cap)]]

\* Archetype::reserve
reserve(arch, additional) ==
    IF additional <= arch.cap - len(arch)
    THEN arch
    ELSE LET new_cap == VecReserve(arch.cap, len(arch), additional)
         IN [arch EXCEPT
                !.cap = new_cap,
                !.components =
                    [t \in DOMAIN @ |-> grow(@[t], len(arch), arch.cap, new_cap)]]

\* ComponentInfo::layout().size() of the component types: B is zero-sized.
LayoutSizes == [A |-> 4, B |-> 0]

NoAlloc == [allocs |-> 0, alloc_bytes |-> 0, deallocs |-> 0, dealloc_bytes |-> 0]

\* ArchetypeComponent::grow without `if self.info.layout().size() != 0`.
grow_alloc_any_size(size, old_cap, new_cap) ==
    [allocs |-> 1,
     alloc_bytes |-> size * new_cap,
     deallocs |-> IF old_cap # 0 THEN 1 ELSE 0,
     dealloc_bytes |-> IF old_cap # 0 THEN size * old_cap ELSE 0]

\* The calls of alloc and dealloc in ArchetypeComponent::grow
grow_alloc(size, old_cap, new_cap) ==
    IF size # 0
    THEN [allocs |-> 1,
          alloc_bytes |-> size * new_cap,
          deallocs |-> IF old_cap # 0 THEN 1 ELSE 0,
          dealloc_bytes |-> IF old_cap # 0 THEN size * old_cap ELSE 0]
    ELSE NoAlloc

\* The calls of alloc and dealloc per column in Archetype::reserve
reserve_alloc(arch, additional) ==
    [t \in DOMAIN arch.components |->
        IF additional <= arch.cap - len(arch)
        THEN NoAlloc
        ELSE grow_alloc(LayoutSizes[t], arch.cap,
                        VecReserve(arch.cap, len(arch), additional))]

\* The call of dealloc per column in ArchetypeComponent::drop
drop_alloc(arch) ==
    [t \in DOMAIN arch.components |->
        IF LayoutSizes[t] # 0
        THEN [NoAlloc EXCEPT !.deallocs = 1, !.dealloc_bytes = LayoutSizes[t] * arch.cap]
        ELSE NoAlloc]

\* The closure of Archetype::write_bundle and the body of Archetype::write_one:
\* stamp the three epochs, then store the value (set_one or a raw copy).
write_column(data, entity_idx, value, epoch) ==
    [data EXCEPT
        !.epoch = bump_again(@, epoch),
        !.chunk_epochs[chunk_idx(entity_idx)] = bump_again(@, epoch),
        !.entity_epochs[entity_idx] = bump(@, epoch),
        !.ptr[entity_idx] = value]

write_column_ok(data, entity_idx, epoch) ==
    /\ bump_again_ok(data.epoch, epoch)
    /\ bump_again_ok(data.chunk_epochs[chunk_idx(entity_idx)], epoch)
    /\ bump_ok(data.entity_epochs[entity_idx], epoch)

\* Archetype::write_bundle; bundle is a function from type ids to values.
write_bundle(arch, entity_idx, bundle, epoch) ==
    [arch EXCEPT !.components =
        [t \in DOMAIN @ |->
            IF t \in DOMAIN bundle
            THEN write_column(@[t], entity_idx, bundle[t], epoch)
            ELSE @[t]]]

write_bundle_ok(arch, entity_idx, bundle, epoch) ==
    \A t \in DOMAIN bundle : write_column_ok(arch.components[t], entity_idx, epoch)

\* The values ArchetypeComponent::set_one drops in write_bundle: those of the
\* bundle's types for which occupied(id) is true.
write_bundle_drops(arch, entity_idx, bundle, occupied) ==
    {arch.components[t].ptr[entity_idx] : t \in (DOMAIN bundle) \cap occupied}

\* Archetype::write_one
write_one(arch, type, entity_idx, value, epoch) ==
    [arch EXCEPT !.components[type] = write_column(@, entity_idx, value, epoch)]

write_one_ok(arch, type, entity_idx, epoch) ==
    write_column_ok(arch.components[type], entity_idx, epoch)

\* Archetype::spawn, up to the push of the entity
\* Archetype::spawn writing the bundle over the last row.
spawn_over_last_row(arch, entity, bundle, epoch) ==
    LET entity_idx == Max(len(arch) - 1, 0)
        grown == reserve(arch, 1)
        written == write_bundle(grown, entity_idx, bundle, epoch)
    IN [written EXCEPT !.entities = Append(@, entity)]

spawn(arch, entity, bundle, epoch) ==
    LET entity_idx == len(arch)
        grown == reserve(arch, 1)
        written == write_bundle(grown, entity_idx, bundle, epoch)
    IN [written EXCEPT !.entities = Append(@, entity)]

spawn_ok(arch, bundle, epoch) ==
    write_bundle_ok(reserve(arch, 1), len(arch), bundle, epoch)

\* The column loop of despawn_unchecked without `chunk_epoch.update(last_epoch)`.
despawn_column_no_chunk_epoch(data, entity_idx, last_entity_idx) ==
    LET dropped_one == [data EXCEPT !.ptr[entity_idx] = Uninit]
        moved ==
            IF entity_idx # last_entity_idx
            THEN [dropped_one EXCEPT
                    !.entity_epochs[entity_idx] = data.entity_epochs[last_entity_idx],
                    !.ptr[entity_idx] = data.ptr[last_entity_idx],
                    !.ptr[last_entity_idx] = Uninit]
            ELSE dropped_one
    IN IF debugBuild
       THEN [moved EXCEPT !.entity_epochs[last_entity_idx] = EpochStart]
       ELSE moved

\* The column loop of despawn_unchecked without the cfg(debug_assertions) block.
despawn_column_no_reset(data, entity_idx, last_entity_idx) ==
    LET dropped_one == [data EXCEPT !.ptr[entity_idx] = Uninit]
    IN IF entity_idx # last_entity_idx
       THEN [dropped_one EXCEPT
                !.chunk_epochs[chunk_idx(entity_idx)] =
                    update(@, data.entity_epochs[last_entity_idx]),
                !.entity_epochs[entity_idx] = data.entity_epochs[last_entity_idx],
                !.ptr[entity_idx] = data.ptr[last_entity_idx],
                !.ptr[last_entity_idx] = Uninit]
       ELSE dropped_one

\* One iteration of the column loop of Archetype::despawn_unchecked
despawn_column(data, entity_idx, last_entity_idx) ==
    LET dropped_one == [data EXCEPT !.ptr[entity_idx] = Uninit]
        moved ==
            IF entity_idx # last_entity_idx
            THEN [dropped_one EXCEPT
                    !.chunk_epochs[chunk_idx(entity_idx)] =
                        update(@, data.entity_epochs[last_entity_idx]),
                    !.entity_epochs[entity_idx] = data.entity_epochs[last_entity_idx],
                    !.ptr[entity_idx] = data.ptr[last_entity_idx],
                    !.ptr[last_entity_idx] = Uninit]
            ELSE dropped_one
    IN IF debugBuild
       THEN [moved EXCEPT !.entity_epochs[last_entity_idx] = EpochStart]
       ELSE moved

\* Archetype::despawn_unchecked
despawn_unchecked(arch, entity_idx) ==
    LET last_entity_idx == len(arch) - 1
    IN [arch EXCEPT
           !.components =
               [t \in DOMAIN @ |-> despawn_column(@[t], entity_idx, last_entity_idx)],
           !.entities = SwapRemove(@, entity_idx)]

\* A despawn that forgets `drop_one`.
despawn_drops_nothing(arch, entity_idx) == {}

\* The values `component.info.drop_one` is called on by despawn_unchecked.
despawn_drops(arch, entity_idx) ==
    {arch.components[t].ptr[entity_idx] : t \in DOMAIN arch.components}

\* A despawn that reports the entity it removed instead of the one it moved.
despawn_result_removed(arch, entity_idx) ==
    IF entity_idx # len(arch) - 1
    THEN EntityIdx(arch.entities[entity_idx + 1])
    ELSE None

\* The Option<u32> despawn_unchecked returns.
despawn_result(arch, entity_idx) ==
    IF entity_idx # len(arch) - 1
    THEN EntityIdx(despawn_unchecked(arch, entity_idx).entities[entity_idx + 1])
    ELSE None

\* Archetype::set_bundle
set_bundle(arch, entity_idx, bundle, epoch) ==
    write_bundle(arch, entity_idx, bundle, epoch)

\* Archetype::set
set(arch, type, entity_idx, value, epoch) ==
    write_one(arch, type, entity_idx, value, epoch)

\* Archetype::get
get(arch, type, entity_idx) == arch.components[type].ptr[entity_idx]

\* Archetype::get_mut stamping the archetype epoch of every column.
get_mut_every_column(arch, type, entity_idx, epoch) ==
    [arch EXCEPT !.components =
        [t \in DOMAIN @ |->
            IF t = type
            THEN [@[t] EXCEPT
                    !.epoch = bump(@, epoch),
                    !.chunk_epochs[chunk_idx(entity_idx)] = bump(@, epoch),
                    !.entity_epochs[entity_idx] = bump(@, epoch)]
            ELSE [@[t] EXCEPT !.epoch = bump(@, epoch)]]]

\* Archetype::get_mut
get_mut(arch, type, entity_idx, epoch) ==
    [arch EXCEPT !.components[type] =
        [@ EXCEPT
            !.epoch = bump(@, epoch),
            !.chunk_epochs[chunk_idx(entity_idx)] = bump(@, epoch),
            !.entity_epochs[entity_idx] = bump(@, epoch)]]

get_mut_ok(arch, type, entity_idx, epoch) ==
    LET data == arch.components[type]
    IN /\ bump_ok(data.epoch, epoch)
       /\ bump_ok(data.chunk_epochs[chunk_idx(entity_idx)], epoch)
       /\ bump_ok(data.entity_epochs[entity_idx], epoch)

\* The destination half without `*dst_entity_epoch = epoch`.
relocate_dst_column_keep_slot(dst_data, src_data, src_entity_idx, dst_entity_idx) ==
    LET epoch == src_data.entity_epochs[src_entity_idx]
    IN [dst_data EXCEPT
           !.epoch = update(@, epoch),
           !.chunk_epochs[chunk_idx(dst_entity_idx)] = update(@, epoch),
           !.ptr[dst_entity_idx] = src_data.ptr[src_entity_idx]]

\* Archetype::relocate_components, destination half of one loop iteration:
\* the type is present in dst.
relocate_dst_column(dst_data, src_data, src_entity_idx, dst_entity_idx) ==
    LET epoch == src_data.entity_epochs[src_entity_idx]
    IN [dst_data EXCEPT
           !.epoch = update(@, epoch),
           !.chunk_epochs[chunk_idx(dst_entity_idx)] = update(@, epoch),
           !.entity_epochs[dst_entity_idx] = epoch,
           !.ptr[dst_entity_idx] = src_data.ptr[src_entity_idx]]

\* The source half without `*entity_epoch = last_epoch`.
relocate_src_column_no_epoch(src_data, src_entity_idx, last_entity_idx) ==
    LET left == [src_data EXCEPT !.ptr[src_entity_idx] = Uninit]
        moved ==
            IF src_entity_idx # last_entity_idx
            THEN [left EXCEPT
                    !.chunk_epochs[chunk_idx(src_entity_idx)] =
                        update(@, src_data.entity_epochs[last_entity_idx]),
                    !.ptr[src_entity_idx] = src_data.ptr[last_entity_idx],
                    !.ptr[last_entity_idx] = Uninit]
            ELSE left
    IN IF debugBuild
       THEN [moved EXCEPT !.entity_epochs[last_entity_idx] = EpochStart]
       ELSE moved

\* Archetype::relocate_components, source half of one loop iteration: the
\* row's value has left (copied to dst, dropped or moved out by `missing`),
\* the last row back-fills it.
relocate_src_column(src_data, src_entity_idx, last_entity_idx) ==
    LET left == [src_data EXCEPT !.ptr[src_entity_idx] = Uninit]
        moved ==
            IF src_entity_idx # last_entity_idx
            THEN [left EXCEPT
                    !.chunk_epochs[chunk_idx(src_entity_idx)] =
                        update(@, src_data.entity_epochs[last_entity_idx]),
                    !.entity_epochs[src_entity_idx] = src_data.entity_epochs[last_entity_idx],
                    !.ptr[src_entity_idx] = src_data.ptr[last_entity_idx],
                    !.ptr[last_entity_idx] = Uninit]
            ELSE left
    IN IF debugBuild
       THEN [moved EXCEPT !.entity_epochs[last_entity_idx] = EpochStart]
       ELSE moved

\* Archetype::relocate_components: the pair of archetypes after the loop.
relocate_components(src, src_entity_idx, dst, dst_entity_idx) ==
    LET last_entity_idx == len(src) - 1
    IN [src |-> [src EXCEPT !.components =
                    [t \in DOMAIN @ |->
                        relocate_src_column(@[t], src_entity_idx, last_entity_idx)]],
        dst |-> [dst EXCEPT !.components =
                    [t \in DOMAIN @ |->
                        IF t \in DOMAIN src.components
                        THEN relocate_dst_column(@[t], src.components[t],
                                                 src_entity_idx, dst_entity_idx)
                        ELSE @[t]]]]

\* debug_assert_eq!(*dst_entity_epoch, EpochId::start())
relocate_components_ok(src, dst, dst_entity_idx) ==
    \A t \in (DOMAIN src.components) \cap (DOMAIN dst.components) :
        dst.components[t].entity_epochs[dst_entity_idx] = EpochStart

relocate_missing_first_row(src, src_entity_idx, dst) ==
    {src.components[t].ptr[0] :
        t \in (DOMAIN src.components) \ (DOMAIN dst.components)}

\* The source values handed to `missing`: types absent from dst.
relocate_missing(src, src_entity_idx, dst) ==
    {src.components[t].ptr[src_entity_idx] :
        t \in (DOMAIN src.components) \ (DOMAIN dst.components)}

\* The tail shared by insert, insert_bundle, remove and drop_bundle:
\* swap_remove on the source entities, push on the destination, and the
\* returned (dst_entity_idx, Option<swapped entity idx>).
move_entity(pair, src_entity_idx) ==
    LET entity == pair.src.entities[src_entity_idx + 1]
        src == [pair.src EXCEPT !.entities = SwapRemove(@, src_entity_idx)]
        dst == [pair.dst EXCEPT !.entities = Append(@, entity)]
    IN [src |-> src,
        dst |-> dst,
        dst_idx |-> len(pair.dst),
        swapped |-> IF src_entity_idx # len(src)
                    THEN EntityIdx(src.entities[src_entity_idx + 1])
                    ELSE None]

\* An insert that relocates the entity and never calls write_one.
insert_without_write(src, dst, src_idx, type, value, epoch) ==
    LET dst_entity_idx == len(dst)
        reserved == reserve(dst, 1)
        pair == relocate_components(src, src_idx, reserved, dst_entity_idx)
    IN move_entity(pair, src_idx)

\* Archetype::insert
insert(src, dst, src_idx, type, value, epoch) ==
    LET dst_entity_idx == len(dst)
        reserved == reserve(dst, 1)
        pair == relocate_components(src, src_idx, reserved, dst_entity_idx)
        written == [pair EXCEPT !.dst = write_one(@, type, dst_entity_idx, value, epoch)]
    IN move_entity(written, src_idx)

insert_ok(src, dst, src_idx, type, epoch) ==
    LET dst_entity_idx == len(dst)
        reserved == reserve(dst, 1)
        pair == relocate_components(src, src_idx, reserved, dst_entity_idx)
    IN /\ relocate_components_ok(src, reserved, dst_entity_idx)
       /\ write_one_ok(pair.dst, type, dst_entity_idx, epoch)

\* Archetype::insert_bundle
insert_bundle(src, dst, src_idx, bundle, epoch) ==
    LET dst_entity_idx == len(dst)
        reserved == reserve(dst, 1)
        pair == relocate_components(src, src_idx, reserved, dst_entity_idx)
        written == [pair EXCEPT !.dst = write_bundle(@, dst_entity_idx, bundle, epoch)]
    IN move_entity(written, src_idx)

insert_bundle_ok(src, dst, src_idx, bundle, epoch) ==
    LET dst_entity_idx == len(dst)
        reserved == reserve(dst, 1)
        pair == relocate_components(src, src_idx, reserved, dst_entity_idx)
    IN /\ relocate_components_ok(src, reserved, dst_entity_idx)
       /\ write_bundle_ok(pair.dst, dst_entity_idx, bundle, epoch)

\* set_one in insert_bundle drops the carried-over values the bundle rewrites.
insert_bundle_drops(src, src_idx, bundle) ==
    {src.components[t].ptr[src_idx] : t \in (DOMAIN bundle) \cap (DOMAIN src.components)}

\* Archetype::remove and Archetype::drop_bundle: the archetypes and the
\* returned indices; the missing values are moved out, resp. dropped.
remove(src, dst, src_idx) ==
    LET dst_entity_idx == len(dst)
        reserved == reserve(dst, 1)
        pair == relocate_components(src, src_idx, reserved, dst_entity_idx)
    IN move_entity(pair, src_idx)

drop_bundle_without_swap_remove(src, dst, src_idx) ==
    [move_entity(relocate_components(src, src_idx, reserve(dst, 1), len(dst)), src_idx)
        EXCEPT !.src = src]

drop_bundle(src, dst, src_idx) ==
    LET dst_entity_idx == len(dst)
        reserved == reserve(dst, 1)
        pair == relocate_components(src, src_idx, reserved, dst_entity_idx)
    IN move_entity(pair, src_idx)

\* Archetype::remove: `value.write(ptr::read(ptr))` in the missing closure,
\* returned by `value.assume_init()`.
remove_value(src, dst, src_idx) ==
    CHOOSE v \in relocate_missing(src, src_idx, dst) : TRUE

remove_ok(src, dst) ==
    relocate_components_ok(src, reserve(dst, 1), len(dst))

\* ArchetypeComponent::drop by Drop for Archetype: final_drop over the first
\* len rows of every column.
drop_archetype(arch) ==
    UNION {{arch.components[t].ptr[i] : i \in 0..(len(arch) - 1)} :
            t \in DOMAIN arch.components}

\* ------------------------------------------------------------------- World

TypeOrd(t) == IF t = "A" THEN 0 ELSE 1

\* A bundle with one fresh value per type, owned by entity.
FreshBundle(types, serial, entity) ==
    [t \in types |-> Token(serial + TypeOrd(t), entity)]

BundleTokens(bundle) == {bundle[t] : t \in DOMAIN bundle}

\* Capacity of the entity vector after pushes up to n rows, each preceded by
\* reserve(1).
RECURSIVE CapacityFor(_, _)
CapacityFor(cap, n) ==
    IF n <= cap THEN cap ELSE CapacityFor(VecReserve(cap, cap, 1), n)

\* The archetype after n spawns of the entities first..first+n-1 at one epoch
\* (a batch spawn into a new archetype), written out row by row.
BatchSpawned(types, first, n, epoch) ==
    LET cap == CapacityFor(0, n)
    IN [entities |-> [i \in 1..n |-> first + i - 1],
        cap |-> cap,
        components |->
            [t \in types |->
                [ptr |-> [i \in 0..(cap - 1) |->
                            IF i < n THEN FreshBundle({t}, 1, first + i)[t] ELSE Uninit],
                 epoch |-> IF n > 0 THEN epoch ELSE EpochStart,
                 entity_epochs |-> [i \in 0..(cap - 1) |->
                            IF i < n THEN epoch ELSE EpochStart],
                 chunk_epochs |-> [c \in 0..(chunks_count(cap) - 1) |->
                            IF c * CHUNK_LEN_USIZE < n THEN epoch ELSE EpochStart]]]]

FirstEntity(counts, a) ==
    IF a = 1 THEN 1 ELSE 1 + counts[1]

\* The tokens of the initial batch.
InitialTokens ==
    UNION {{FreshBundle({t}, 1, e)[t] :
                t \in ArchetypeSets[a],
                e \in FirstEntity(initCounts, a)..(FirstEntity(initCounts, a) + initCounts[a] - 1)} :
            a \in ArchIds}

MovedIn == InitialTokens \cup created

\* What the World last gave entity e for type t, and at which epoch: the
\* initial batch unless an operation on e wrote it since.
Expected(e, t) ==
    IF <<e, t>> \in DOMAIN expected
    THEN expected[<<e, t>>]
    ELSE [value |-> FreshBundle({t}, 1, e)[t], epoch |-> 1]

Written(e, written, epoch) ==
    [p \in (DOMAIN expected) \cup {<<e, t>> : t \in DOMAIN written} |->
        IF p[1] = e /\ p[2] \in DOMAIN written
        THEN [value |-> written[p[2]], epoch |-> epoch]
        ELSE expected[p]]

\* The row an operation is about, as it was before the operation.
Snapshot(arch, row) ==
    [len |-> len(arch),
     entities |-> arch.entities,
     values |-> [t \in DOMAIN arch.components |-> arch.components[t].ptr[row]],
     epochs |-> [t \in DOMAIN arch.components |-> arch.components[t].entity_epochs[row]],
     chunk_epochs |-> [t \in DOMAIN arch.components |->
                        arch.components[t].chunk_epochs[chunk_idx(row)]],
     last_epochs |-> [t \in DOMAIN arch.components |->
                        arch.components[t].entity_epochs[len(arch) - 1]]]

NoOp ==
    [op |-> "none", src |-> None, dst |-> None, row |-> None, entity |-> None,
     type |-> {}, epoch |-> None, ret |-> None, swapped |-> None, value |-> None,
     pre |-> None, dst_len |-> None, old_cap |-> None, undoes_spawn |-> None,
     undoes |-> [op |-> "none"], arch |-> None, dst_arch |-> None, heap |-> <<>>]

NoQuery == [kind |-> "none"]

\* ------------------------------------------------------------ borrow table

\* The counter of a column: 0 when free, the number of readers, or the
\* "write" sentinel.
WriteLocked == -1

Columns == {c \in ArchIds \X TypeIds : c[2] \in ArchetypeSets[c[1]]}

NoLocks == [c \in Columns |-> 0]

\* What a release does to a counter that holds no acquisition of that access:
\* the counter is left alone, is reset, or reads as write-locked.
UnheldReleases == {"keep", "free", "wrap"}

\* No system: no query argument, no ModifiedCache.
NoCache == [parts |-> <<>>, after_epoch |-> EpochStart]

NoCall ==
    [op |-> "none", q |-> 0, entity |-> None, outcome |-> "none", before |-> NoLocks,
     was_borrowed |-> FALSE, held_before |-> {}, taken |-> {}, released |-> {},
     unmatched |-> {}, log |-> <<>>, twin |-> "none", located |-> FALSE,
     skips |-> FALSE]

Init ==
    /\ debugBuild \in BOOLEAN
    /\ \E counts \in InitialCounts :
        LET batch == [a \in ArchIds |->
                        BatchSpawned(ArchetypeSets[a], FirstEntity(counts, a), counts[a], 1)]
            entity == 1 + counts[1] + counts[2]
            bundle == FreshBundle(ArchetypeSets[1], 3, entity)
        IN /\ initCounts = counts
           /\ IF counts[3]
              THEN /\ archetypes = [batch EXCEPT ![1] = spawn(@, entity, bundle, 2)]
                   /\ nextEntity = entity + 1
                   /\ created = BundleTokens(bundle)
                   /\ expected = [p \in {<<entity, t>> : t \in DOMAIN bundle} |->
                                    [value |-> bundle[p[2]], epoch |-> 2]]
                   /\ worldEpoch = 2
                   /\ nextSerial = 5
              ELSE /\ archetypes = batch
                   /\ nextEntity = entity
                   /\ created = {}
                   /\ expected = <<>>
                   /\ worldEpoch = 1
                   /\ nextSerial = 3
    /\ dropped = EmptyBag
    /\ movedOut = EmptyBag
    /\ worldAlive = TRUE
    /\ panicked = FALSE
    /\ steps = 0
    /\ lastOp = NoOp
    /\ lastQuery = NoQuery
    /\ locks = NoLocks
    /\ queryRefs = <<>>
    /\ lastCall = NoCall
    /\ modifiedCache = NoCache

BigWorld == \E a \in ArchIds : initCounts[a] >= CHUNK_LEN_USIZE

StepBudget == IF BigWorld THEN MaxBigSteps ELSE MaxSteps

Running == worldAlive /\ ~panicked /\ steps < StepBudget

\* The rows operations are tried on: the first and the last of the archetype.
RowChoices(a) ==
    {r \in {0, len(archetypes[a]) - 1} : r >= 0 /\ r < len(archetypes[a])}

\* The alloc and dealloc calls of an operation on archetype a, per column.
Heap(a, calls) == [c \in {d \in Columns : d[1] = a} |-> calls[c[2]]]

\* A debug assertion failed: the process aborts.
Panic(op) ==
    /\ panicked' = TRUE
    /\ lastOp' = [NoOp EXCEPT !.op = op]
    /\ lastQuery' = NoQuery
    /\ UNCHANGED <<archetypes, worldEpoch, debugBuild, nextEntity, nextSerial,
                   initCounts, created, expected, dropped, movedOut, worldAlive, steps>>
    /\ UNCHANGED qvars

Checked(ok) == debugBuild => ok

\* An operation ran to its end.
Commit(archs, epoch, entity, bundle, written, drops, outs, op) ==
    /\ archetypes' = archs
    /\ worldEpoch' = epoch
    /\ nextEntity' = IF entity = nextEntity THEN nextEntity + 1 ELSE nextEntity
    /\ nextSerial' = IF DOMAIN bundle # {} THEN nextSerial + 2 ELSE nextSerial
    /\ created' = created \cup BundleTokens(bundle)
    /\ expected' = Written(entity, written, epoch)
    /\ dropped' = dropped (+) SetToBag(drops)
    /\ movedOut' = movedOut (+) SetToBag(outs)
    /\ steps' = steps + 1
    /\ lastOp' = op
    /\ lastQuery' = NoQuery
    /\ UNCHANGED <<debugBuild, initCounts, worldAlive, panicked>>
    /\ UNCHANGED qvars

NoBundle == <<>>

\* World::spawn / spawn_batch: a fresh epoch, or the epoch of the batch.
Spawn(a, fresh) ==
    LET arch == archetypes[a]
        epoch == IF fresh THEN worldEpoch + 1 ELSE worldEpoch
        entity == nextEntity
        bundle == FreshBundle(ArchetypeSets[a], nextSerial, entity)
    IN /\ Running
       /\ IF Checked(spawn_ok(arch, bundle, epoch))
          THEN Commit([archetypes EXCEPT ![a] = spawn(arch, entity, bundle, epoch)],
                      epoch, entity, bundle, bundle, {}, {},
                      [NoOp EXCEPT !.op = "spawn", !.src = a, !.row = len(arch),
                                   !.entity = entity, !.type = DOMAIN bundle,
                                   !.epoch = epoch, !.ret = len(arch),
                                   !.dst_len = len(arch), !.arch = arch,
                                   !.heap = Heap(a, reserve_alloc(arch, 1))])
          ELSE Panic("spawn")

\* World::despawn
Despawn(a, row) ==
    LET arch == archetypes[a]
        entity == arch.entities[row + 1]
    IN /\ Running
       /\ row \in RowChoices(a)
       /\ Commit([archetypes EXCEPT ![a] = despawn_unchecked(arch, row)],
                 worldEpoch, entity, NoBundle, NoBundle, despawn_drops(arch, row), {},
                 [NoOp EXCEPT !.op = "despawn", !.src = a, !.row = row,
                              !.entity = entity, !.type = DOMAIN arch.components,
                              !.swapped = despawn_result(arch, row),
                              !.pre = Snapshot(arch, row),
                              !.undoes_spawn =
                                    IF /\ lastOp.op = "spawn"
                                       /\ lastOp.src = a
                                       /\ lastOp.entity = entity
                                    THEN lastOp.dst_len
                                    ELSE None])

\* Archetype::reserve called by the World ahead of a batch.
Reserve(a, additional) ==
    /\ Running
    /\ Commit([archetypes EXCEPT ![a] = reserve(@, additional)],
              worldEpoch, None, NoBundle, NoBundle, {}, {},
              [NoOp EXCEPT !.op = "reserve", !.src = a, !.ret = additional,
                           !.old_cap = archetypes[a].cap, !.arch = archetypes[a],
                           !.heap = Heap(a, reserve_alloc(archetypes[a], additional))])

\* World::insert on an entity that already has the type: Archetype::set
Set(a, row, type) ==
    LET arch == archetypes[a]
        epoch == worldEpoch + 1
        entity == arch.entities[row + 1]
        bundle == FreshBundle({type}, nextSerial, entity)
    IN /\ Running
       /\ row \in RowChoices(a)
       /\ type \in ArchetypeSets[a]
       /\ IF Checked(write_one_ok(arch, type, row, epoch))
          THEN Commit([archetypes EXCEPT ![a] = set(arch, type, row, bundle[type], epoch)],
                      epoch, entity, bundle, bundle, {get(arch, type, row)}, {},
                      [NoOp EXCEPT !.op = "set", !.src = a, !.row = row,
                                   !.entity = entity, !.type = {type}, !.epoch = epoch,
                                   !.value = bundle[type], !.pre = Snapshot(arch, row)])
          ELSE Panic("set")

\* World::insert_bundle on an entity that has every type of the bundle:
\* Archetype::set_bundle
SetBundle(a, row) ==
    LET arch == archetypes[a]
        epoch == worldEpoch + 1
        entity == arch.entities[row + 1]
        bundle == FreshBundle(ArchetypeSets[a], nextSerial, entity)
    IN /\ Running
       /\ row \in RowChoices(a)
       /\ IF Checked(write_bundle_ok(arch, row, bundle, epoch))
          THEN Commit([archetypes EXCEPT ![a] = set_bundle(arch, row, bundle, epoch)],
                      epoch, entity, bundle, bundle,
                      write_bundle_drops(arch, row, bundle, DOMAIN bundle), {},
                      [NoOp EXCEPT !.op = "set_bundle", !.src = a, !.row = row,
                                   !.entity = entity, !.type = DOMAIN bundle,
                                   !.epoch = epoch, !.pre = Snapshot(arch, row)])
          ELSE Panic("set_bundle")

\* World::get_mut / query_one_mut: Archetype::get_mut at an advanced epoch
GetMut(a, row, type) ==
    LET arch == archetypes[a]
        epoch == worldEpoch + 1
        entity == arch.entities[row + 1]
    IN /\ Running
       /\ row \in RowChoices(a)
       /\ type \in ArchetypeSets[a]
       /\ IF Checked(get_mut_ok(arch, type, row, epoch))
          THEN /\ Commit([archetypes EXCEPT ![a] = get_mut(arch, type, row, epoch)],
                         epoch, entity, NoBundle,
                         [t \in {type} |-> get(arch, type, row)], {}, {},
                         [NoOp EXCEPT !.op = "get_mut", !.src = a, !.row = row,
                                      !.entity = entity, !.type = {type},
                                      !.epoch = epoch, !.value = get(arch, type, row),
                                      !.pre = Snapshot(arch, row), !.arch = arch])
          ELSE Panic("get_mut")

\* World::get / query_one: Archetype::get, the epoch is not advanced
Get(a, row, type) ==
    LET arch == archetypes[a]
        entity == arch.entities[row + 1]
    IN /\ Running
       /\ row \in RowChoices(a)
       /\ type \in ArchetypeSets[a]
       /\ Commit(archetypes, worldEpoch, entity, NoBundle, NoBundle, {}, {},
                 [NoOp EXCEPT !.op = "get", !.src = a, !.row = row,
                              !.entity = entity, !.type = {type},
                              !.epoch = worldEpoch, !.value = get(arch, type, row),
                              !.arch = arch])

\* The archetype an entity moves to when its type set becomes `types`.
ArchetypeOf(types) == CHOOSE a \in ArchIds : ArchetypeSets[a] = types

HasArchetype(types) == \E a \in ArchIds : ArchetypeSets[a] = types

Relocated(op, s, d, row, res, types, epoch, value) ==
    [NoOp EXCEPT !.op = op, !.src = s, !.dst = d, !.row = row,
                 !.entity = archetypes[s].entities[row + 1], !.type = types,
                 !.epoch = epoch, !.ret = res.dst_idx, !.swapped = res.swapped,
                 !.value = value, !.pre = Snapshot(archetypes[s], row),
                 !.dst_len = len(archetypes[d]), !.dst_arch = archetypes[d],
                 !.heap = Heap(d, reserve_alloc(archetypes[d], 1))]

\* The operation `op` that moved the entity of row `row` of archetype s
\* there from archetype d, if it was the last operation.
Undoes(op, s, d, row) ==
    IF /\ lastOp.op = op
       /\ lastOp.entity = archetypes[s].entities[row + 1]
       /\ lastOp.dst = s
       /\ lastOp.src = d
    THEN [lastOp EXCEPT !.undoes = NoOp.undoes]
    ELSE NoOp.undoes

\* World::insert on an entity that lacks the type: Archetype::insert
Insert(s, row, type) ==
    LET src == archetypes[s]
        d == ArchetypeOf(ArchetypeSets[s] \cup {type})
        dst == archetypes[d]
        epoch == worldEpoch + 1
        entity == src.entities[row + 1]
        bundle == FreshBundle({type}, nextSerial, entity)
        res == insert(src, dst, row, type, bundle[type], epoch)
    IN /\ Running
       /\ row \in RowChoices(s)
       /\ type \in TypeIds \ ArchetypeSets[s]
       /\ HasArchetype(ArchetypeSets[s] \cup {type})
       /\ IF Checked(insert_ok(src, dst, row, type, epoch))
          THEN Commit([archetypes EXCEPT ![s] = res.src, ![d] = res.dst],
                      epoch, entity, bundle, bundle, {}, {},
                      Relocated("insert", s, d, row, res, {type}, epoch, bundle[type]))
          ELSE Panic("insert")

\* World::insert_bundle with at least one type the entity lacks:
\* Archetype::insert_bundle
InsertBundle(s, row, types) ==
    LET src == archetypes[s]
        d == ArchetypeOf(ArchetypeSets[s] \cup types)
        dst == archetypes[d]
        epoch == worldEpoch + 1
        entity == src.entities[row + 1]
        bundle == FreshBundle(types, nextSerial, entity)
        res == insert_bundle(src, dst, row, bundle, epoch)
    IN /\ Running
       /\ row \in RowChoices(s)
       /\ types \in SUBSET TypeIds
       /\ types \ ArchetypeSets[s] # {}
       /\ HasArchetype(ArchetypeSets[s] \cup types)
       /\ IF Checked(insert_bundle_ok(src, dst, row, bundle, epoch))
          THEN Commit([archetypes EXCEPT ![s] = res.src, ![d] = res.dst],
                      epoch, entity, bundle, bundle, insert_bundle_drops(src, row, bundle), {},
                      Relocated("insert_bundle", s, d, row, res, types, epoch, None))
          ELSE Panic("insert_bundle")

\* World::remove: Archetype::remove, the removed value returned to the caller
Remove(s, row, type) ==
    LET src == archetypes[s]
        d == ArchetypeOf(ArchetypeSets[s] \ {type})
        dst == archetypes[d]
        res == remove(src, dst, row)
    IN /\ Running
       /\ row \in RowChoices(s)
       /\ type \in ArchetypeSets[s]
       /\ HasArchetype(ArchetypeSets[s] \ {type})
       /\ IF Checked(remove_ok(src, dst))
          THEN Commit([archetypes EXCEPT ![s] = res.src, ![d] = res.dst],
                      worldEpoch, src.entities[row + 1], NoBundle, NoBundle,
                      {}, relocate_missing(src, row, dst),
                      [Relocated("remove", s, d, row, res, {type}, None,
                                 remove_value(src, dst, row))
                            EXCEPT !.undoes = Undoes("insert", s, d, row)])
          ELSE Panic("remove")

\* World::drop_bundle: Archetype::drop_bundle, the missing values dropped
DropBundle(s, row, types) ==
    LET src == archetypes[s]
        d == ArchetypeOf(ArchetypeSets[s] \ types)
        dst == archetypes[d]
        res == drop_bundle(src, dst, row)
    IN /\ Running
       /\ row \in RowChoices(s)
       /\ types \in SUBSET TypeIds
       /\ types \cap ArchetypeSets[s] # {}
       /\ HasArchetype(ArchetypeSets[s] \ types)
       /\ IF Checked(remove_ok(src, dst))
          THEN Commit([archetypes EXCEPT ![s] = res.src, ![d] = res.dst],
                      worldEpoch, src.entities[row + 1], NoBundle, NoBundle,
                      relocate_missing(src, row, dst), {},
                      [Relocated("drop_bundle", s, d, row, res, types, None, None)
                            EXCEPT !.undoes = Undoes("insert_bundle", s, d, row)])
          ELSE Panic("drop_bundle")

\* Drop for World: every archetype is dropped.
DropWorld ==
    /\ Running
    /\ worldAlive' = FALSE
    /\ steps' = steps + 1
    /\ dropped' = dropped (+)
            SetToBag(UNION {drop_archetype(archetypes[a]) : a \in ArchIds})
    /\ lastOp' = [NoOp EXCEPT !.op = "drop",
                              !.heap = [c \in Columns |-> drop_alloc(archetypes[c[1]])[c[2]]]]
    /\ lastQuery' = NoQuery
    /\ UNCHANGED <<archetypes, worldEpoch, debugBuild, nextEntity, nextSerial,
                   initCounts, created, expected, movedOut, panicked>>
    /\ UNCHANGED qvars

\* ------------------------------------------------------------------ queries

Min(a, b) == IF a <= b THEN a ELSE b

\* Modified<Copied<T>>::skip_archetype and Modified<Alt<T>>::skip_archetype
modified_skip_archetype(arch, type, after_epoch) ==
    IF type \notin DOMAIN arch.components
    THEN TRUE
    ELSE ~after(arch.components[type].epoch, after_epoch)

\* ModifiedFetchCopied::skip_chunk and ModifiedFetchAlt::skip_chunk
modified_skip_chunk(data, after_epoch, chunk) ==
    ~after(data.chunk_epochs[chunk], after_epoch)

\* ModifiedFetchCopied::skip_item and ModifiedFetchAlt::skip_item
modified_skip_item(data, after_epoch, idx) ==
    ~after(data.entity_epochs[idx], after_epoch)

\* The index `indices.next()` returns after `indices.next()` returned idx and
\* `indices.nth(CHUNK_LEN_USIZE - 1)` was called: nth(n) consumes n + 1 indices.
after_nth(idx) == idx + 1 + (CHUNK_LEN_USIZE - 1) + 1

\* The items `acc = f(acc, item)?` hands over while idx runs from `from` up
\* to `stop`: one per index whose skip_item is false, in the order of the loop.
stretch_items(data, after_epoch, from, stop) ==
    SelectSeq([k \in 1..(stop - from) |-> from + k - 1],
              LAMBDA i : ~modified_skip_item(data, after_epoch, i))

\* The `while let Some(idx) = indices.next()` loop of try_fold_impl over one
\* archetype of n rows, taken one stretch of rows at a time: from idx to the
\* next chunk boundary, only idx itself can be the first row of a chunk.  Each
\* stretch gives a run: the rows whose skip_item was called (first..last),
\* the rows handed to get_item and the items in the order they were handed
\* over, the chunk visit_chunk was called for (None if it was not), the chunk
\* skip_chunk was called for (None if it was not) and what it returned, and
\* the index the loop goes on with.
RECURSIVE try_fold_impl_rows(_, _, _, _, _)
try_fold_impl_rows(data, after_epoch, n, idx, visit_chunk) ==
    IF idx >= n
    THEN <<>>
    ELSE LET chunk == first_of_chunk(idx)
         IN IF chunk # None /\ modified_skip_chunk(data, after_epoch, chunk)
            THEN <<[first |-> idx, last |-> idx - 1, rows |-> {}, items |-> <<>>,
                    visited |-> None, chunk |-> chunk, skipped |-> TRUE,
                    next |-> after_nth(idx)]>>
                 \o try_fold_impl_rows(data, after_epoch, n, after_nth(idx), visit_chunk)
            ELSE LET flag == (chunk # None) \/ visit_chunk
                     stop == Min(n, (chunk_idx(idx) + 1) * CHUNK_LEN_USIZE)
                     got == {i \in idx..(stop - 1) :
                                ~modified_skip_item(data, after_epoch, i)}
                 IN <<[first |-> idx, last |-> stop - 1, rows |-> got,
                       items |-> stretch_items(data, after_epoch, idx, stop),
                       visited |-> IF flag /\ got # {} THEN chunk_idx(idx) ELSE None,
                       chunk |-> chunk, skipped |-> FALSE, next |-> stop]>>
                    \o try_fold_impl_rows(data, after_epoch, n, stop, flag /\ got = {})

\* try_fold_impl: the runs of every archetype, in archetype order; <<>> for an
\* archetype that is empty or skipped.
try_fold_impl(archs, type, after_epoch) ==
    [a \in ArchIds |->
        IF len(archs[a]) = 0 \/ modified_skip_archetype(archs[a], type, after_epoch)
        THEN <<>>
        ELSE try_fold_impl_rows(archs[a].components[type], after_epoch,
                                len(archs[a]), 0, FALSE)]

\* The same loop in try_fold_pre_borrowed_impl.
RECURSIVE try_fold_pre_borrowed_impl_rows(_, _, _, _, _)
try_fold_pre_borrowed_impl_rows(data, after_epoch, n, idx, visit_chunk) ==
    IF idx >= n
    THEN <<>>
    ELSE LET chunk == first_of_chunk(idx)
         IN IF chunk # None /\ modified_skip_chunk(data, after_epoch, chunk)
            THEN <<[first |-> idx, last |-> idx - 1, rows |-> {}, items |-> <<>>,
                    visited |-> None, chunk |-> chunk, skipped |-> TRUE,
                    next |-> after_nth(idx)]>>
                 \o try_fold_pre_borrowed_impl_rows(data, after_epoch, n, after_nth(idx),
                                                 visit_chunk)
            ELSE LET flag == (chunk # None) \/ visit_chunk
                     stop == Min(n, (chunk_idx(idx) + 1) * CHUNK_LEN_USIZE)
                     got == {i \in idx..(stop - 1) :
                                ~modified_skip_item(data, after_epoch, i)}
                 IN <<[first |-> idx, last |-> stop - 1, rows |-> got,
                       items |-> stretch_items(data, after_epoch, idx, stop),
                       visited |-> IF flag /\ got # {} THEN chunk_idx(idx) ELSE None,
                       chunk |-> chunk, skipped |-> FALSE, next |-> stop]>>
                    \o try_fold_pre_borrowed_impl_rows(data, after_epoch, n, stop,
                                                       flag /\ got = {})

try_fold_pre_borrowed_impl(archs, type, after_epoch) ==
    [a \in ArchIds |->
        IF len(archs[a]) = 0 \/ modified_skip_archetype(archs[a], type, after_epoch)
        THEN <<>>
        ELSE try_fold_pre_borrowed_impl_rows(archs[a].components[type], after_epoch,
                                             len(archs[a]), 0, FALSE)]

\* The items of the runs of one archetype, run after run.
RECURSIVE archetype_items(_)
archetype_items(runs) ==
    IF runs = <<>> THEN <<>> ELSE Head(runs).items \o archetype_items(Tail(runs))

\* `for archetype in archetypes`: the items of a pass from archetype a on, as
\* <<archetype, row>> in the order the closure receives them.
RECURSIVE pass_items_from(_, _)
pass_items_from(runs, a) ==
    IF a > Len(runs)
    THEN <<>>
    ELSE [i \in 1..Len(archetype_items(runs[a])) |-> <<a, archetype_items(runs[a])[i]>>]
         \o pass_items_from(runs, a + 1)

pass_items_last_archetype_first(runs) ==
    [i \in 1..Len(archetype_items(runs[Len(runs)])) |->
        <<Len(runs), archetype_items(runs[Len(runs)])[i]>>]
    \o [i \in 1..Len(archetype_items(runs[1])) |-> <<1, archetype_items(runs[1])[i]>>]

pass_items(runs) == pass_items_from(runs, 1)

\* QueryRef::try_fold: the pass takes the next epoch of the World.  A pass of
\* Modified<Copied<T>> on a QueryRef that holds no borrows runs try_fold_impl;
\* a pass of Modified<Alt<T>> on a QueryRef that already holds its borrows
\* runs try_fold_pre_borrowed_impl, its closure only reading the items.
QueryKinds == {"copied", "alt"}

QueryPass(kind, type, after_epoch) ==
    /\ Running
    /\ after_epoch \in 0..worldEpoch
    /\ worldEpoch' = worldEpoch + 1
    /\ steps' = steps + 1
    /\ lastQuery' =
        LET runs == IF kind = "copied"
                    THEN try_fold_impl(archetypes, type, after_epoch)
                    ELSE try_fold_pre_borrowed_impl(archetypes, type, after_epoch)
        IN [kind |-> kind, type |-> type, after_epoch |-> after_epoch,
            epoch |-> worldEpoch + 1, runs |-> runs, items |-> pass_items(runs)]
    /\ lastOp' = [NoOp EXCEPT !.op = "query", !.epoch = worldEpoch + 1]
    /\ UNCHANGED <<archetypes, debugBuild, nextEntity, nextSerial, initCounts, created,
                   expected, dropped, movedOut, worldAlive, panicked>>
    /\ UNCHANGED qvars

\* The largest epoch a behaviour can reach.
EpochBound == 2 + MaxSteps

ReserveSizes == {3}

ArchetypeOps ==
    \/ \E a \in ArchIds, fresh \in BOOLEAN : Spawn(a, fresh)
    \/ \E a \in ArchIds : \E row \in RowChoices(a) : Despawn(a, row)
    \/ \E a \in ArchIds, n \in ReserveSizes : Reserve(a, n)
    \/ \E a \in ArchIds : \E row \in RowChoices(a), t \in TypeIds : Set(a, row, t)
    \/ \E a \in ArchIds : \E row \in RowChoices(a) : SetBundle(a, row)
    \/ \E a \in ArchIds : \E row \in RowChoices(a), t \in TypeIds : GetMut(a, row, t)
    \/ \E a \in ArchIds : \E row \in RowChoices(a), t \in TypeIds : Get(a, row, t)
    \/ \E a \in ArchIds : \E row \in RowChoices(a), t \in TypeIds : Insert(a, row, t)
    \/ \E a \in ArchIds : \E row \in RowChoices(a), ts \in SUBSET TypeIds :
            InsertBundle(a, row, ts)
    \/ \E a \in ArchIds : \E row \in RowChoices(a), t \in TypeIds : Remove(a, row, t)
    \/ \E a \in ArchIds : \E row \in RowChoices(a), ts \in SUBSET TypeIds :
            DropBundle(a, row, ts)
    \/ DropWorld

QueryOps ==
    \E kind \in QueryKinds, t \in TypeIds, e \in 0..EpochBound : QueryPass(kind, t, e)

Next == ArchetypeOps \/ QueryOps

Spec == Init /\ [][Next]_vars

\* ----------------------------------------------------------- column borrows

\* ArchetypeComponent::borrow: whether it succeeds, and the counter after it.
borrow_ok(counter, access) ==
    IF access = "Read" THEN counter >= 0 ELSE counter = 0

borrow(counter, access) ==
    IF access = "Read" THEN counter + 1 ELSE WriteLocked

\* ArchetypeComponent::release
release(counter, access, unheld) ==
    IF access = "Read" /\ counter > 0
    THEN counter - 1
    ELSE IF access = "Write" /\ counter = WriteLocked
         THEN 0
         ELSE CASE unheld = "keep" -> counter
                [] unheld = "free" -> 0
                [] OTHER -> WriteLocked

\* ----------------------------------------------------------------- queries

\* Modified<Copied<T>>, Modified<Alt<T>>, a tuple of them, and the filter
\* With<T> for every T of `with`.
ModifiedQuery(kinds, types, after_epoch, with) ==
    [parts |-> [i \in DOMAIN kinds |-> [kind |-> kinds[i], type |-> types[i]]],
     after_epoch |-> after_epoch,
     with |-> with]

\* RelatesTo<&mut R> { target }: a write fetch over the column of
\* OriginComponent<R>, which is component B of the model.
RelatesTo(target) == [kind |-> "relates_write", type |-> "B", target |-> target]

\* The target of the one origin an OriginComponent<R> value holds: entity 1
\* or entity 2, by the entity that owns the value.
origin_target(value) == 1 + ((value % EntStride) % 2)

\* Query::skip_archetype of one component of a tuple query
part_skip_archetype(arch, part, after_epoch) ==
    IF part.kind = "relates_write"
    THEN part.type \notin DOMAIN arch.components
    ELSE modified_skip_archetype(arch, part.type, after_epoch)

\* Fetch::skip_chunk of one component: FetchRelatesToWrite never skips a chunk
part_skip_chunk(arch, part, after_epoch, chunk) ==
    IF part.kind = "relates_write"
    THEN FALSE
    ELSE modified_skip_chunk(arch.components[part.type], after_epoch, chunk)

\* Fetch::skip_item of one component: FetchRelatesToWrite skips the rows
\* without an origin to the target
part_skip_item(arch, part, after_epoch, idx) ==
    IF part.kind = "relates_write"
    THEN origin_target(arch.components[part.type].ptr[idx]) # part.target
    ELSE modified_skip_item(arch.components[part.type], after_epoch, idx)

\* The columns a tuple query fetches for writing through FetchRelatesToWrite.
RelatesColumns(query) ==
    {query.parts[i].type : i \in {j \in DOMAIN query.parts :
                                    query.parts[j].kind = "relates_write"}}

\* Query::fetch: RelatesTo<&mut R>::fetch bumps the epoch of its column;
\* the fetches of Modified only read.
fetch(arch, query, epoch) ==
    [arch EXCEPT !.components =
        [t \in DOMAIN @ |->
            IF t \in RelatesColumns(query)
            THEN [@[t] EXCEPT !.epoch = bump(@, epoch)]
            ELSE @[t]]]

\* Fetch::visit_chunk of a tuple: FetchRelatesToWrite bumps the chunk epoch,
\* ModifiedFetchAlt and ModifiedFetchCopied do nothing.
fetch_visit_chunk(arch, query, chunk, epoch) ==
    [arch EXCEPT !.components =
        [t \in DOMAIN @ |->
            IF t \in RelatesColumns(query)
            THEN [@[t] EXCEPT !.chunk_epochs[chunk] = bump(@, epoch)]
            ELSE @[t]]]

\* Fetch::get_item of a tuple: FetchRelatesToWrite bumps the entity epoch.
fetch_get_item(arch, query, idx, epoch) ==
    [arch EXCEPT !.components =
        [t \in DOMAIN @ |->
            IF t \in RelatesColumns(query)
            THEN [@[t] EXCEPT !.entity_epochs[idx] = bump(@, epoch)]
            ELSE @[t]]]

\* Tuple query: skip_archetype is the OR of the components.
query_skip_archetype(arch, query) ==
    \E i \in DOMAIN query.parts :
        part_skip_archetype(arch, query.parts[i], query.after_epoch)

\* With<T>::skip_archetype
filter_skip_archetype(arch, query) ==
    ~(query.with \subseteq DOMAIN arch.components)

\* FilteredQuery::skip_archetype
filtered_skip_archetype(arch, query) ==
    filter_skip_archetype(arch, query) \/ query_skip_archetype(arch, query)

\* Query::access of one component of a query: RelatesTo<&mut R> declares
\* Write on its column, Modified<Copied<T>> what Copied<T> declares (Read on
\* T), Modified<Alt<T>> what Alt<T> declares (Write on T); None for the other
\* types.
part_access(part, ty) ==
    IF ty # part.type
    THEN "None"
    ELSE IF part.kind = "copied" THEN "Read" ELSE "Write"

\* access_archetype that asks for Write whatever the component.
access_archetype_all_write(query) ==
    [i \in DOMAIN query.parts |-> <<query.parts[i].type, "Write">>]

\* access_archetype: Read for Modified<Copied<T>>, Write for Modified<Alt<T>>,
\* in tuple order.
access_archetype(query) ==
    [i \in DOMAIN query.parts |->
        <<query.parts[i].type,
          IF query.parts[i].kind = "copied" THEN "Read" ELSE "Write">>]

Accesses(a, query) ==
    {<<a, access_archetype(query)[i][1], access_archetype(query)[i][2]>> :
        i \in DOMAIN query.parts}

\* The `access_archetype(archetype, &|id, access| { borrow; assert!(success) })`
\* calls: the accesses are borrowed in order up to the first that fails.
RECURSIVE borrow_archetype(_, _, _, _)
borrow_archetype(lk, a, accesses, i) ==
    IF i > Len(accesses)
    THEN [locks |-> lk, ok |-> TRUE, taken |-> {}]
    ELSE LET c == <<a, accesses[i][1]>>
             access == accesses[i][2]
         IN IF ~borrow_ok(lk[c], access)
            THEN [locks |-> lk, ok |-> FALSE, taken |-> {}]
            ELSE LET rest == borrow_archetype([lk EXCEPT ![c] = borrow(@, access)],
                                              a, accesses, i + 1)
                 IN [rest EXCEPT !.taken = @ \cup {<<a, accesses[i][1], access>>}]

\* The `access_archetype(archetype, &|id, access| { release })` calls.
RECURSIVE release_archetype(_, _, _, _, _)
release_archetype(lk, a, accesses, i, unheld) ==
    IF i > Len(accesses)
    THEN lk
    ELSE release_archetype(
            [lk EXCEPT ![<<a, accesses[i][1]>>] = release(@, accesses[i][2], unheld)],
            a, accesses, i + 1, unheld)

\* Drop for ReleaseOnFailure: the first n archetypes that the query, without
\* its filter, does not skip are released.
RECURSIVE ReleaseOnFailure(_, _, _, _, _)
ReleaseOnFailure(lk, archs, query, n, unheld) ==
    IF n = 0
    THEN lk
    ELSE LET earlier == ReleaseOnFailure(lk, archs, query, n - 1, unheld)
         IN IF ~query_skip_archetype(archs[n], query)
            THEN release_archetype(earlier, n, access_archetype(query), 1, unheld)
            ELSE earlier

\* The archetypes Drop for ReleaseOnFailure releases, in the order of its loop.
ReleaseOnFailureLog(archs, query, n) ==
    SelectSeq([a \in 1..n |-> <<"release", a>>],
              LAMBDA e : ~query_skip_archetype(archs[e[2]], query))

ReleaseOnFailureSet(archs, query, n) ==
    UNION {Accesses(a, query) :
            a \in {b \in 1..n : ~query_skip_archetype(archs[b], query)}}

\* QueryRef::ensure_borrow on a QueryRef that is not borrowed, from archetype
\* k on: the locks after it, whether it succeeded, the borrows it took and
\* the releases of its guard.
RECURSIVE ensure_borrow_from(_, _, _, _, _)
ensure_borrow_from(lk, archs, query, k, unheld) ==
    IF k > Len(archs)
    THEN [locks |-> lk, ok |-> TRUE, taken |-> {}, released |-> {}, log |-> <<>>]
    ELSE IF filtered_skip_archetype(archs[k], query)
         THEN ensure_borrow_from(lk, archs, query, k + 1, unheld)
         ELSE LET b == borrow_archetype(lk, k, access_archetype(query), 1)
              IN IF b.ok
                 THEN LET rest == ensure_borrow_from(b.locks, archs, query, k + 1, unheld)
                      IN [rest EXCEPT !.taken = @ \cup b.taken,
                                      !.log = <<<<"borrow", k>>>> \o @]
                 ELSE [locks |-> ReleaseOnFailure(b.locks, archs, query, k - 1, unheld),
                       ok |-> FALSE,
                       taken |-> b.taken,
                       released |-> ReleaseOnFailureSet(archs, query, k - 1),
                       log |-> ReleaseOnFailureLog(archs, query, k - 1)]

ensure_borrow(lk, archs, query, unheld) ==
    ensure_borrow_from(lk, archs, query, 1, unheld)

\* QueryRef::release on a borrowed QueryRef: every archetype the filtered
\* query does not skip now is released.
RECURSIVE query_release_upto(_, _, _, _, _)
query_release_upto(lk, archs, query, n, unheld) ==
    IF n = 0
    THEN lk
    ELSE LET earlier == query_release_upto(lk, archs, query, n - 1, unheld)
         IN IF ~filtered_skip_archetype(archs[n], query)
            THEN release_archetype(earlier, n, access_archetype(query), 1, unheld)
            ELSE earlier

query_release(lk, archs, query, unheld) ==
    query_release_upto(lk, archs, query, Len(archs), unheld)

\* QueryRef::release with its loop run from the last archetype to the first.
query_release_log_reversed(archs, query) ==
    SelectSeq([i \in 1..Len(archs) |-> <<"release", Len(archs) + 1 - i>>],
              LAMBDA e : ~filtered_skip_archetype(archs[e[2]], query))

\* The archetypes QueryRef::release releases, in the order of its loop.
query_release_log(archs, query) ==
    SelectSeq([a \in 1..Len(archs) |-> <<"release", a>>],
              LAMBDA e : ~filtered_skip_archetype(archs[e[2]], query))

query_release_set(archs, query) ==
    UNION {Accesses(a, query) :
            a \in {b \in DOMAIN archs : ~filtered_skip_archetype(archs[b], query)}}

guard_release_nothing(lk, a, query) == lk

\* QueryRelease::do_release, by QueryRelease::release or by Drop: it follows
\* the borrows of the same accesses, so each counter holds what is released.
guard_release(lk, a, query) ==
    release_archetype(lk, a, access_archetype(query), 1, "keep")

\* RefMut: a write through the item stamps the entity, its chunk and the
\* column with the epoch of the pass.
alt_write(arch, type, rows, epoch) ==
    IF rows = {}
    THEN arch
    ELSE [arch EXCEPT !.components[type] =
            [@ EXCEPT !.epoch = epoch,
                      !.entity_epochs = [i \in DOMAIN @ |->
                                            IF i \in rows THEN epoch ELSE @[i]],
                      !.chunk_epochs = [c \in DOMAIN @ |->
                                            IF \E i \in rows : chunk_idx(i) = c
                                            THEN epoch ELSE @[c]]]]

PassRows(runs) == UNION {runs[i].rows : i \in DOMAIN runs}

\* The rows try_fold_impl hands to the closure in one archetype.
fold_rows(arch, query) ==
    PassRows(try_fold_impl_rows(arch.components[query.parts[1].type],
                                query.after_epoch, len(arch), 0, FALSE))

fold_rows_pre_borrowed(arch, query) ==
    PassRows(try_fold_pre_borrowed_impl_rows(arch.components[query.parts[1].type],
                                             query.after_epoch, len(arch), 0, FALSE))

\* try_fold_impl with its borrows, from archetype k on.  call: the query, the
\* epoch of the pass, whether the closure writes every item, and whether it
\* returns Err at the first item.
RECURSIVE try_fold_locked(_, _, _, _)
try_fold_locked(lk, archs, call, k) ==
    IF k > Len(archs)
    THEN [locks |-> lk, archs |-> archs, outcome |-> "Ok", log |-> <<>>, taken |-> {}]
    ELSE IF len(archs[k]) = 0 \/ filtered_skip_archetype(archs[k], call.query)
         THEN try_fold_locked(lk, archs, call, k + 1)
         ELSE LET b == borrow_archetype(lk, k, access_archetype(call.query), 1)
                  rows == fold_rows(archs[k], call.query)
                  released == guard_release(b.locks, k, call.query)
                  written == IF call.write
                             THEN alt_write(archs[k], call.query.parts[1].type,
                                            rows, call.epoch)
                             ELSE archs[k]
              IN IF ~b.ok
                 THEN [locks |-> b.locks, archs |-> archs, outcome |-> "abort",
                       log |-> <<>>, taken |-> b.taken]
                 ELSE IF call.err /\ rows # {}
                      THEN [locks |-> released, archs |-> archs, outcome |-> "Err",
                            log |-> <<<<"borrow", k>>, <<"item", k>>, <<"release", k>>>>,
                            taken |-> b.taken]
                      ELSE LET rest == try_fold_locked(released,
                                            [archs EXCEPT ![k] = written], call, k + 1)
                           IN [rest EXCEPT
                                !.log = <<<<"borrow", k>>, <<"item", k>>,
                                          <<"release", k>>>> \o @,
                                !.taken = @ \cup b.taken]

\* try_fold_pre_borrowed_impl: no borrow is taken or released.
try_fold_unlocked(lk, archs, call) ==
    LET passed == {a \in DOMAIN archs :
                    len(archs[a]) # 0 /\ ~filtered_skip_archetype(archs[a], call.query)}
        rows == [a \in DOMAIN archs |->
                    IF a \in passed THEN fold_rows_pre_borrowed(archs[a], call.query)
                    ELSE {}]
        stopped == call.err /\ \E a \in passed : rows[a] # {}
    IN [locks |-> lk,
        archs |-> [a \in DOMAIN archs |->
                    IF call.write /\ ~stopped
                    THEN alt_write(archs[a], call.query.parts[1].type, rows[a], call.epoch)
                    ELSE archs[a]],
        outcome |-> IF stopped THEN "Err" ELSE "Ok",
        log |-> [i \in 1..Cardinality(passed) |->
                    <<"item", CHOOSE a \in passed :
                                Cardinality({b \in passed : b < a}) = i - 1>>],
        taken |-> {}]

\* EntitySet::get_location: Option<(archetype, row)>
NoLocation == <<>>

Locations(archs) ==
    UNION {{<<a, i - 1>> : i \in DOMAIN archs[a].entities} : a \in DOMAIN archs}

get_location(archs, entity) ==
    IF \E loc \in Locations(archs) : archs[loc[1]].entities[loc[2] + 1] = entity
    THEN CHOOSE loc \in Locations(archs) : archs[loc[1]].entities[loc[2] + 1] = entity
    ELSE NoLocation

\* Tuple fetch: skip_chunk and skip_item are the OR of the components.
fetch_skip_chunk(arch, query, chunk) ==
    \E i \in DOMAIN query.parts :
        part_skip_chunk(arch, query.parts[i], query.after_epoch, chunk)

fetch_skip_item(arch, query, idx) ==
    \E i \in DOMAIN query.parts :
        part_skip_item(arch, query.parts[i], query.after_epoch, idx)

\* QueryRef::get_one after ensure_borrow: skip_chunk, visit_chunk, skip_item,
\* get_item.
get_one_fetch(arch, query, idx) ==
    IF fetch_skip_chunk(arch, query, chunk_idx(idx))
    THEN "NotSatisfied"
    ELSE IF fetch_skip_item(arch, query, idx) THEN "NotSatisfied" ELSE "Item"

for_one_fetch_without_skip_item(arch, query, idx) ==
    IF fetch_skip_chunk(arch, query, chunk_idx(idx)) THEN "NotSatisfied" ELSE "Item"

\* for_one and for_one_pre_borrowed after the borrows: skip_chunk, skip_item,
\* visit_chunk, get_item.
for_one_fetch(arch, query, idx) ==
    IF fetch_skip_chunk(arch, query, chunk_idx(idx))
    THEN "NotSatisfied"
    ELSE IF fetch_skip_item(arch, query, idx) THEN "NotSatisfied" ELSE "Item"

\* The archetype after the fetch calls of get_one: fetch, skip_chunk,
\* visit_chunk, skip_item, get_item.
get_one_visit(arch, query, idx, epoch) ==
    LET fetched == fetch(arch, query, epoch)
        visited == fetch_visit_chunk(fetched, query, chunk_idx(idx), epoch)
    IN IF fetch_skip_chunk(fetched, query, chunk_idx(idx))
       THEN fetched
       ELSE IF fetch_skip_item(visited, query, idx)
            THEN visited
            ELSE fetch_get_item(visited, query, idx, epoch)

\* The archetype after the fetch calls of for_one and for_one_pre_borrowed:
\* fetch, skip_chunk, skip_item, visit_chunk, get_item.
for_one_visit(arch, query, idx, epoch) ==
    LET fetched == fetch(arch, query, epoch)
    IN IF fetch_skip_chunk(fetched, query, chunk_idx(idx))
       THEN fetched
       ELSE IF fetch_skip_item(fetched, query, idx)
            THEN fetched
            ELSE fetch_get_item(
                    fetch_visit_chunk(fetched, query, chunk_idx(idx), epoch),
                    query, idx, epoch)

\* The archetypes after a get_one that returned `outcome`: the fetch is made
\* once the entity is located, its archetype is not skipped and the borrows
\* succeeded.
get_one_archetypes(archs, query, entity, epoch, outcome) ==
    LET loc == get_location(archs, entity)
    IN IF loc = NoLocation \/ outcome = "abort"
       THEN archs
       ELSE IF filtered_skip_archetype(archs[loc[1]], query)
            THEN archs
            ELSE [archs EXCEPT ![loc[1]] = get_one_visit(@, query, loc[2], epoch)]

\* The archetypes after a for_one that returned `outcome`.
for_one_archetypes(archs, query, entity, epoch, outcome) ==
    LET loc == get_location(archs, entity)
    IN IF loc = NoLocation \/ outcome = "abort"
       THEN archs
       ELSE IF filtered_skip_archetype(archs[loc[1]], query)
            THEN archs
            ELSE [archs EXCEPT ![loc[1]] = for_one_visit(@, query, loc[2], epoch)]

\* QueryRef::get_one: the outcome, the locks after it, the borrows taken and
\* the guard's releases, whether the QueryRef is borrowed afterwards and
\* whether the epoch counter advanced.
get_one(lk, archs, ref, entity, unheld) ==
    LET loc == get_location(archs, entity)
        eb == IF ref.borrowed
              THEN [locks |-> lk, ok |-> TRUE, taken |-> {}, released |-> {}]
              ELSE ensure_borrow(lk, archs, ref.query, unheld)
        none == [outcome |-> "NoSuchEntity", locks |-> lk, taken |-> {}, released |-> {},
                 borrowed |-> ref.borrowed, advanced |-> FALSE]
    IN IF loc = NoLocation
       THEN none
       ELSE IF filtered_skip_archetype(archs[loc[1]], ref.query)
            THEN [none EXCEPT !.outcome = "NotSatisfied"]
            ELSE IF ~eb.ok
                 THEN [outcome |-> "abort", locks |-> eb.locks, taken |-> eb.taken,
                       released |-> eb.released, borrowed |-> FALSE, advanced |-> FALSE]
                 ELSE [outcome |-> get_one_fetch(archs[loc[1]], ref.query, loc[2]),
                       locks |-> eb.locks, taken |-> eb.taken, released |-> {},
                       borrowed |-> TRUE, advanced |-> TRUE]

\* for_one without its QueryRelease guard: the borrows are released only by
\* the explicit release after the closure.
for_one_without_guard(lk, archs, ref, entity) ==
    LET loc == get_location(archs, entity)
        b == borrow_archetype(lk, loc[1], access_archetype(ref.query), 1)
        none == [outcome |-> "NoSuchEntity", locks |-> lk, taken |-> {}, log |-> <<>>]
        outcome == for_one_fetch(archs[loc[1]], ref.query, loc[2])
    IN IF loc = NoLocation
       THEN none
       ELSE IF filtered_skip_archetype(archs[loc[1]], ref.query)
            THEN [none EXCEPT !.outcome = "NotSatisfied"]
            ELSE IF ref.borrowed
                 THEN [none EXCEPT !.outcome = outcome]
                 ELSE IF ~b.ok
                      THEN [outcome |-> "abort", locks |-> b.locks, taken |-> b.taken,
                            log |-> <<>>]
                      ELSE IF outcome = "NotSatisfied"
                           THEN [outcome |-> outcome, locks |-> b.locks,
                                 taken |-> b.taken, log |-> <<<<"borrow", loc[1]>>>>]
                           ELSE [outcome |-> outcome,
                                 locks |-> guard_release(b.locks, loc[1], ref.query),
                                 taken |-> b.taken,
                                 log |-> <<<<"borrow", loc[1]>>, <<"item", loc[1]>>,
                                           <<"release", loc[1]>>>>]

\* QueryRef::for_one: for_one_pre_borrowed on a borrowed QueryRef, for_one
\* with the borrows of the entity's archetype otherwise.
for_one(lk, archs, ref, entity) ==
    LET loc == get_location(archs, entity)
        b == borrow_archetype(lk, loc[1], access_archetype(ref.query), 1)
        none == [outcome |-> "NoSuchEntity", locks |-> lk, taken |-> {}, log |-> <<>>]
    IN IF loc = NoLocation
       THEN none
       ELSE IF filtered_skip_archetype(archs[loc[1]], ref.query)
            THEN [none EXCEPT !.outcome = "NotSatisfied"]
            ELSE IF ref.borrowed
                 THEN [none EXCEPT !.outcome =
                                    for_one_fetch(archs[loc[1]], ref.query, loc[2])]
                 ELSE IF ~b.ok
                      THEN [outcome |-> "abort", locks |-> b.locks, taken |-> b.taken,
                            log |-> <<>>]
                      ELSE [outcome |-> for_one_fetch(archs[loc[1]], ref.query, loc[2]),
                            locks |-> guard_release(b.locks, loc[1], ref.query),
                            taken |-> b.taken,
                            log |-> <<<<"borrow", loc[1]>>, <<"item", loc[1]>>,
                                      <<"release", loc[1]>>>>]

\* Whether skip_archetype, skip_chunk or skip_item is true for the row.
Skips(arch, query, idx) ==
    \/ filtered_skip_archetype(arch, query)
    \/ fetch_skip_chunk(arch, query, chunk_idx(idx))
    \/ fetch_skip_item(arch, query, idx)

\* ---------------------------------------------------------------- QueryRefs

\* Number of QueryRef calls in one behaviour.
MaxCalls == 4

\* The QueryRefs of a behaviour.  Stale reads A modified after the first
\* epoch, Reader reads A, Writer writes A, FilteredWriter writes A of the
\* archetypes that have B, TupleWriter writes B and A.
Stale == ModifiedQuery(<<"copied">>, <<"A">>, 1, {})

Reader == ModifiedQuery(<<"copied">>, <<"A">>, EpochStart, {})

Writer == ModifiedQuery(<<"alt">>, <<"A">>, EpochStart, {})

FilteredWriter == ModifiedQuery(<<"alt">>, <<"A">>, EpochStart, {"B"})

TupleWriter == ModifiedQuery(<<"alt", "alt">>, <<"B", "A">>, EpochStart, {})

OtherWriter == ModifiedQuery(<<"alt">>, <<"B">>, EpochStart, {})

\* The QueryRefs in creation order, and the one whose iter() ran before the
\* behaviour starts (0: none).
QuerySetups ==
    {[queries |-> <<Stale, Reader, FilteredWriter>>, iterated |-> 0],
     [queries |-> <<Stale, Reader, FilteredWriter>>, iterated |-> 1],
     [queries |-> <<Reader, TupleWriter>>, iterated |-> 0],
     [queries |-> <<Writer, FilteredWriter>>, iterated |-> 0],
     [queries |-> <<Stale, Reader, OtherWriter>>, iterated |-> 0]}

\* Rows batch-spawned into the two archetypes, and one more entity spawned
\* into the first at the next epoch.
QueryCounts == <<1, 1, TRUE>>

InitQ ==
    /\ debugBuild = FALSE
    /\ initCounts = QueryCounts
    /\ LET batch == [a \in ArchIds |->
                        BatchSpawned(ArchetypeSets[a], FirstEntity(QueryCounts, a),
                                     QueryCounts[a], 1)]
           entity == 1 + QueryCounts[1] + QueryCounts[2]
           bundle == FreshBundle(ArchetypeSets[1], 3, entity)
           world == [batch EXCEPT ![1] = spawn(@, entity, bundle, 2)]
       IN /\ archetypes = world
          /\ nextEntity = entity + 1
          /\ created = BundleTokens(bundle)
          /\ expected = [p \in {<<entity, t>> : t \in DOMAIN bundle} |->
                            [value |-> bundle[p[2]], epoch |-> 2]]
          /\ \E setup \in QuerySetups :
                LET eb == ensure_borrow(NoLocks, world, setup.queries[setup.iterated],
                                        "keep")
                IN /\ queryRefs =
                        [q \in DOMAIN setup.queries |->
                            [query |-> setup.queries[q],
                             borrowed |-> (q = setup.iterated),
                             live |-> TRUE,
                             held |-> IF q = setup.iterated THEN eb.taken ELSE {}]]
                   /\ locks = IF setup.iterated = 0 THEN NoLocks ELSE eb.locks
                   /\ worldEpoch = IF setup.iterated = 0 THEN 2 ELSE 3
    /\ nextSerial = 5
    /\ dropped = EmptyBag
    /\ movedOut = EmptyBag
    /\ worldAlive = TRUE
    /\ panicked = FALSE
    /\ steps = 0
    /\ lastOp = NoOp
    /\ lastQuery = NoQuery
    /\ lastCall = NoCall
    /\ modifiedCache = NoCache

RunningQ == ~panicked /\ steps < MaxCalls

\* A call of a QueryRef method ran to its return or to its abort.
Called(archs, epoch, lk, refs, call) ==
    /\ archetypes' = archs
    /\ worldEpoch' = epoch
    /\ locks' = lk
    /\ queryRefs' = refs
    /\ lastCall' = call
    /\ panicked' = (call.outcome = "abort")
    /\ steps' = steps + 1
    /\ UNCHANGED <<debugBuild, nextEntity, nextSerial, initCounts, created, expected,
                   dropped, movedOut, worldAlive, lastOp, lastQuery, modifiedCache>>

CallOf(op, q) ==
    [NoCall EXCEPT !.op = op, !.q = q, !.before = locks,
                   !.was_borrowed = queryRefs[q].borrowed,
                   !.held_before = queryRefs[q].held]

\* QueryRef::iter and QueryRef::iter_mut: ensure_borrow, then the next epoch.
Iter(q, unheld) ==
    LET ref == queryRefs[q]
        eb == ensure_borrow(locks, archetypes, ref.query, unheld)
        call == CallOf("iter", q)
    IN /\ RunningQ
       /\ ref.live
       /\ IF ref.borrowed
          THEN Called(archetypes, worldEpoch + 1, locks, queryRefs,
                      [call EXCEPT !.outcome = "Ok"])
          ELSE IF eb.ok
               THEN Called(archetypes, worldEpoch + 1, eb.locks,
                           [queryRefs EXCEPT ![q].borrowed = TRUE, ![q].held = eb.taken],
                           [call EXCEPT !.outcome = "Ok", !.taken = eb.taken,
                                        !.log = eb.log])
               ELSE Called(archetypes, worldEpoch, eb.locks,
                           [queryRefs EXCEPT ![q].held = eb.taken \ eb.released],
                           [call EXCEPT !.outcome = "abort", !.taken = eb.taken,
                                        !.released = eb.released,
                                        !.unmatched = eb.released \ eb.taken,
                                        !.log = eb.log])

\* QueryRef::release, and Drop for QueryRef, which calls it.
Release(q, drop, unheld) ==
    LET ref == queryRefs[q]
        released == IF ref.borrowed THEN query_release_set(archetypes, ref.query) ELSE {}
        call == CallOf(IF drop THEN "drop" ELSE "release", q)
    IN /\ RunningQ
       /\ ref.live
       /\ Called(archetypes, worldEpoch,
                 IF ref.borrowed
                 THEN query_release(locks, archetypes, ref.query, unheld)
                 ELSE locks,
                 [queryRefs EXCEPT ![q].borrowed = FALSE, ![q].live = ~drop,
                                   ![q].held = @ \ released],
                 [call EXCEPT !.outcome = "Ok", !.released = released,
                              !.unmatched = released \ ref.held,
                              !.log = IF ref.borrowed
                                      THEN query_release_log(archetypes, ref.query)
                                      ELSE <<>>])

\* QueryRef::deconstruct, which QueryRef::release is the first step of, on a
\* QueryRef that keeps what release leaves behind.
deconstruct_without_release(lk, archs, ref, unheld) ==
    [locks |-> lk, released |-> {}, log |-> <<>>]

\* QueryRef::deconstruct: release(), then the parts are moved out.
deconstruct(lk, archs, ref, unheld) ==
    IF ref.borrowed
    THEN [locks |-> query_release(lk, archs, ref.query, unheld),
          released |-> query_release_set(archs, ref.query),
          log |-> query_release_log(archs, ref.query)]
    ELSE [locks |-> lk, released |-> {}, log |-> <<>>]

\* The builder methods of QueryRef: layer() wraps the query in a tuple,
\* with::<B>() adds the filter With<B>.
BuilderMethods == {"layer", "with"}

built_query(query, method) ==
    IF method = "with" THEN [query EXCEPT !.with = @ \cup {"B"}] ELSE query

\* QueryRef::layer, QueryRef::with: deconstruct the QueryRef, then construct
\* the new one in its place with `borrowed: Cell::new(false)`.
Build(q, method, unheld) ==
    LET ref == queryRefs[q]
        parts == deconstruct(locks, archetypes, ref, unheld)
    IN /\ RunningQ
       /\ ref.live
       /\ Called(archetypes, worldEpoch, parts.locks,
                 [queryRefs EXCEPT ![q].query = built_query(@, method),
                                   ![q].borrowed = FALSE,
                                   ![q].held = @ \ parts.released],
                 [CallOf(method, q) EXCEPT !.outcome = "Ok",
                                           !.released = parts.released,
                                           !.unmatched = parts.released \ ref.held,
                                           !.log = parts.log])

\* QueryRef::try_fold (for_each, try_for_each and fold call it): the next
\* epoch, then try_fold_pre_borrowed_impl on a borrowed QueryRef and
\* try_fold_impl otherwise.
TryFold(q, write, err) ==
    LET ref == queryRefs[q]
        epoch == worldEpoch + 1
        pass == [query |-> ref.query, epoch |-> epoch, write |-> write, err |-> err]
        res == IF ref.borrowed
               THEN try_fold_unlocked(locks, archetypes, pass)
               ELSE try_fold_locked(locks, archetypes, pass, 1)
        kept == IF res.outcome = "abort" THEN res.taken ELSE {}
    IN /\ RunningQ
       /\ ref.live
       /\ Len(ref.query.parts) = 1
       /\ write => ref.query.parts[1].kind = "alt"
       /\ write => ~err
       /\ Called(res.archs, epoch, res.locks,
                 [queryRefs EXCEPT ![q].held = @ \cup kept],
                 [CallOf("try_fold", q) EXCEPT !.outcome = res.outcome,
                                               !.taken = res.taken,
                                               !.released = res.taken \ kept,
                                               !.log = res.log])

\* QueryRef::get_one
GetOne(q, entity, unheld) ==
    LET ref == queryRefs[q]
        res == get_one(locks, archetypes, ref, entity, unheld)
        loc == get_location(archetypes, entity)
    IN /\ RunningQ
       /\ ref.live
       /\ Len(ref.query.parts) = 1
       /\ Called(get_one_archetypes(archetypes, ref.query, entity, worldEpoch + 1,
                                    res.outcome),
                 IF res.advanced THEN worldEpoch + 1 ELSE worldEpoch,
                 res.locks,
                 [queryRefs EXCEPT ![q].borrowed = res.borrowed,
                                   ![q].held = (@ \cup res.taken) \ res.released],
                 [CallOf("get_one", q) EXCEPT
                    !.entity = entity, !.outcome = res.outcome, !.taken = res.taken,
                    !.released = res.released,
                    !.unmatched = res.released \ res.taken,
                    !.twin = for_one(locks, archetypes, ref, entity).outcome,
                    !.located = (loc # NoLocation),
                    !.skips = (loc # NoLocation /\ Skips(archetypes[loc[1]], ref.query, loc[2]))])

\* QueryRef::for_one: the next epoch first, then the lookup.
ForOne(q, entity) ==
    LET ref == queryRefs[q]
        res == for_one(locks, archetypes, ref, entity)
        loc == get_location(archetypes, entity)
        kept == IF res.outcome = "abort" THEN res.taken ELSE {}
    IN /\ RunningQ
       /\ ref.live
       /\ Len(ref.query.parts) = 1
       /\ Called(for_one_archetypes(archetypes, ref.query, entity, worldEpoch + 1,
                                    res.outcome),
                 worldEpoch + 1, res.locks,
                 [queryRefs EXCEPT ![q].held = @ \cup kept],
                 [CallOf("for_one", q) EXCEPT
                    !.entity = entity, !.outcome = res.outcome, !.taken = res.taken,
                    !.released = res.taken \ kept, !.log = res.log,
                    !.twin = get_one(locks, archetypes, ref, entity, "keep").outcome,
                    !.located = (loc # NoLocation),
                    !.skips = (loc # NoLocation /\ Skips(archetypes[loc[1]], ref.query, loc[2]))])

\* The entities get_one and for_one are called with: the first and the last
\* of the first archetype, and one the World has not spawned.
OneEntities ==
    {archetypes[1].entities[1], archetypes[1].entities[len(archetypes[1])], nextEntity}

NextQ ==
    \/ \E q \in DOMAIN queryRefs, unheld \in UnheldReleases : Iter(q, unheld)
    \/ \E q \in DOMAIN queryRefs, drop \in BOOLEAN, unheld \in UnheldReleases :
            Release(q, drop, unheld)
    \/ \E q \in DOMAIN queryRefs, write \in BOOLEAN, err \in BOOLEAN : TryFold(q, write, err)
    \/ \E q \in DOMAIN queryRefs, entity \in OneEntities, unheld \in UnheldReleases :
            GetOne(q, entity, unheld)
    \/ \E q \in DOMAIN queryRefs, entity \in OneEntities : ForOne(q, entity)

SpecQ == InitQ /\ [][NextQ]_vars

\* The QueryRefs with their builder methods: borrows are taken by iter() and
\* by get_one, passes write, QueryRefs are released and rebuilt.
NextB ==
    \/ \E q \in DOMAIN queryRefs, unheld \in UnheldReleases : Iter(q, unheld)
    \/ \E q \in DOMAIN queryRefs, unheld \in UnheldReleases : Release(q, FALSE, unheld)
    \/ \E q \in DOMAIN queryRefs, write \in BOOLEAN : TryFold(q, write, FALSE)
    \/ \E q \in DOMAIN queryRefs, entity \in OneEntities : GetOne(q, entity, "keep")
    \/ \E q \in DOMAIN queryRefs, method \in BuilderMethods, unheld \in UnheldReleases :
            Build(q, method, unheld)

SpecB == InitQ /\ [][NextB]_vars

\* ------------------------------------------------------------------ systems

\* Operations of a behaviour of a system: its runs, the writes of the World
\* between them and the point lookups.
MaxRuns == 3

\* Rows of an archetype that reaches into a second chunk.
TwoChunkRows == CHUNK_LEN_USIZE + 2

\* The query argument of the system: Modified<Copied<A>>, Modified<Alt<A>>,
\* the tuple (RelatesTo<&mut R>, Modified<Copied<A>>) with entity 1 as the
\* target, or RelatesTo<&mut R> alone.
SystemQueries ==
    {<<[kind |-> "copied", type |-> "A"]>>,
     <<[kind |-> "alt", type |-> "A"]>>,
     <<RelatesTo(1), [kind |-> "copied", type |-> "A"]>>,
     <<RelatesTo(1)>>}

\* Rows batch-spawned into the two archetypes at the first epoch.
SystemCounts == {<<SmallRows, SmallRows, FALSE>>, <<SmallRows, TwoChunkRows, FALSE>>}

SystemQuery(after_epoch) ==
    [parts |-> modifiedCache.parts, after_epoch |-> after_epoch, with |-> {}]

\* ModifiedCache::get: mem::replace(&mut self.after_epoch, world.epoch())
cache_get(cache, epoch) ==
    [handed |-> cache.after_epoch, cache |-> [cache EXCEPT !.after_epoch = epoch]]

\* The `while let Some(idx) = indices.next()` loop of try_fold_impl for a
\* tuple fetch: its runs, as try_fold_impl_rows gives them for one Modified.
RECURSIVE try_fold_impl_fetch_rows(_, _, _, _, _)
try_fold_impl_fetch_rows(arch, query, n, idx, visit_chunk) ==
    IF idx >= n
    THEN <<>>
    ELSE LET chunk == first_of_chunk(idx)
         IN IF chunk # None /\ fetch_skip_chunk(arch, query, chunk)
            THEN <<[first |-> idx, last |-> idx - 1, rows |-> {}, items |-> <<>>,
                    visited |-> None, chunk |-> chunk, skipped |-> TRUE,
                    next |-> after_nth(idx)]>>
                 \o try_fold_impl_fetch_rows(arch, query, n, after_nth(idx), visit_chunk)
            ELSE LET flag == (chunk # None) \/ visit_chunk
                     stop == Min(n, (chunk_idx(idx) + 1) * CHUNK_LEN_USIZE)
                     got == {i \in idx..(stop - 1) : ~fetch_skip_item(arch, query, i)}
                 IN <<[first |-> idx, last |-> stop - 1, rows |-> got,
                       items |-> SelectSeq([k \in 1..(stop - idx) |-> idx + k - 1],
                                           LAMBDA i : i \in got),
                       visited |-> IF flag /\ got # {} THEN chunk_idx(idx) ELSE None,
                       chunk |-> chunk, skipped |-> FALSE, next |-> stop]>>
                    \o try_fold_impl_fetch_rows(arch, query, n, stop, flag /\ got = {})

\* The fetch calls of the loop with get_item stamping every row.
fetch_runs_every_row(arch, query, runs, epoch) ==
    [arch EXCEPT !.components =
        [t \in DOMAIN @ |->
            IF t \in RelatesColumns(query)
            THEN [@[t] EXCEPT
                    !.epoch = bump(@, epoch),
                    !.chunk_epochs = [c \in DOMAIN @ |-> bump(@[c], epoch)],
                    !.entity_epochs = [i \in DOMAIN @ |-> bump(@[i], epoch)]]
            ELSE @[t]]]

\* The archetype after the fetch calls of the loop: fetch once, visit_chunk
\* for the chunks the runs visited, get_item for the rows they yielded.
fetch_runs(arch, query, runs, epoch) ==
    LET visited == {runs[i].visited : i \in DOMAIN runs} \ {None}
        rows == PassRows(runs)
    IN [arch EXCEPT !.components =
            [t \in DOMAIN @ |->
                IF t \in RelatesColumns(query)
                THEN [@[t] EXCEPT
                        !.epoch = bump(@, epoch),
                        !.chunk_epochs = [c \in DOMAIN @ |->
                                            IF c \in visited
                                            THEN bump(@[c], epoch) ELSE @[c]],
                        !.entity_epochs = [i \in DOMAIN @ |->
                                            IF i \in rows
                                            THEN bump(@[i], epoch) ELSE @[i]]]
                ELSE @[t]]]

\* The columns the closure of the system writes through the RefMut items of
\* Modified<Alt<T>>.
AltColumns(query) ==
    {query.parts[i].type : i \in {j \in DOMAIN query.parts : query.parts[j].kind = "alt"}}

RECURSIVE alt_write_columns(_, _, _, _)
alt_write_columns(arch, types, rows, epoch) ==
    IF types = {}
    THEN arch
    ELSE LET t == CHOOSE u \in types : TRUE
         IN alt_write_columns(alt_write(arch, t, rows, epoch), types \ {t}, rows, epoch)

\* A call a driver makes on a fetch: the hook, its argument and what it
\* returned (FALSE for the hooks that return nothing).
FetchCall(call, idx, ret) == [call |-> call, idx |-> idx, ret |-> ret]

\* The calls of one turn of the loop of try_fold_impl that reached
\* skip_item: skip_item(idx), then visit_chunk if the flag is up, then
\* get_item(idx), the last two only if skip_item returned false.
row_calls(arch, query, idx, visit) ==
    LET skip == fetch_skip_item(arch, query, idx)
    IN <<FetchCall("skip_item", idx, skip)>>
       \o (IF skip
           THEN <<>>
           ELSE (IF visit THEN <<FetchCall("visit_chunk", chunk_idx(idx), FALSE)>> ELSE <<>>)
                \o <<FetchCall("get_item", idx, FALSE)>>)

\* The calls of the turns for the rows from..to, visit_chunk being due at
\* row `visit` (None: at none).
RECURSIVE rows_calls(_, _, _, _, _)
rows_calls(arch, query, from, to, visit) ==
    IF from > to
    THEN <<>>
    ELSE IF from = to
         THEN row_calls(arch, query, from, visit = from)
         ELSE LET mid == (from + to) \div 2
              IN rows_calls(arch, query, from, mid, visit)
                 \o rows_calls(arch, query, mid + 1, to, visit)

\* The calls of the loop over one archetype, run by run: skip_chunk at a
\* chunk start, then the turns of the rows unless the chunk is skipped.
RECURSIVE runs_calls(_, _, _, _)
runs_calls(arch, query, runs, k) ==
    IF k > Len(runs)
    THEN <<>>
    ELSE LET run == runs[k]
             visit == IF run.visited # None
                      THEN CHOOSE i \in run.rows : \A j \in run.rows : i <= j
                      ELSE None
         IN (IF run.chunk # None
             THEN <<FetchCall("skip_chunk", run.chunk, run.skipped)>>
             ELSE <<>>)
            \o (IF run.skipped
                THEN <<>>
                ELSE rows_calls(arch, query, run.first, run.last, visit))
            \o runs_calls(arch, query, runs, k + 1)

\* The calls of get_one on its fetch, in the order of the source, each made
\* only if the one before did not end the lookup.
get_one_calls_get_item_first(arch, query, idx) ==
    <<FetchCall("fetch", idx, FALSE),
      FetchCall("skip_chunk", chunk_idx(idx), FALSE),
      FetchCall("get_item", idx, FALSE),
      FetchCall("skip_item", idx, FALSE)>>

get_one_calls(arch, query, idx) ==
    LET skip_chunk == fetch_skip_chunk(arch, query, chunk_idx(idx))
        skip_item == fetch_skip_item(arch, query, idx)
    IN <<FetchCall("fetch", idx, FALSE),
         FetchCall("skip_chunk", chunk_idx(idx), skip_chunk)>>
       \o (IF skip_chunk
           THEN <<>>
           ELSE <<FetchCall("visit_chunk", chunk_idx(idx), FALSE),
                  FetchCall("skip_item", idx, skip_item)>>
                \o (IF skip_item THEN <<>> ELSE <<FetchCall("get_item", idx, FALSE)>>))

\* The calls of for_one and for_one_pre_borrowed on their fetch.
for_one_calls(arch, query, idx) ==
    LET skip_chunk == fetch_skip_chunk(arch, query, chunk_idx(idx))
        skip_item == fetch_skip_item(arch, query, idx)
    IN <<FetchCall("fetch", idx, FALSE),
         FetchCall("skip_chunk", chunk_idx(idx), skip_chunk)>>
       \o (IF skip_chunk
           THEN <<>>
           ELSE <<FetchCall("skip_item", idx, skip_item)>>
                \o (IF skip_item
                    THEN <<>>
                    ELSE <<FetchCall("visit_chunk", chunk_idx(idx), FALSE),
                           FetchCall("get_item", idx, FALSE)>>))

\* The calls of a point lookup that returned `outcome`: none unless the
\* lookup got as far as its fetch.
lookup_calls(archs, query, entity, method, outcome) ==
    LET loc == get_location(archs, entity)
    IN IF loc = NoLocation \/ outcome = "abort"
       THEN <<>>
       ELSE IF filtered_skip_archetype(archs[loc[1]], query)
            THEN <<>>
            ELSE IF method = "get_one"
                 THEN get_one_calls(archs[loc[1]], query, loc[2])
                 ELSE for_one_calls(archs[loc[1]], query, loc[2])

\* try_fold_impl from archetype a on: an empty or skipped archetype is passed
\* over; otherwise its columns are borrowed, the loop runs, the closure
\* writes through every item if `write`, and the guard releases the borrows.
RECURSIVE system_fold(_, _, _, _, _, _)
system_fold(lk, archs, query, epoch, write, a) ==
    IF a \notin ArchIds
    THEN [locks |-> lk, archs |-> archs, items |-> {}, ok |-> TRUE, calls |-> <<>>]
    ELSE IF len(archs[a]) = 0 \/ filtered_skip_archetype(archs[a], query)
         THEN system_fold(lk, archs, query, epoch, write, a + 1)
         ELSE LET b == borrow_archetype(lk, a, access_archetype(query), 1)
                  runs == try_fold_impl_fetch_rows(archs[a], query, len(archs[a]), 0, FALSE)
                  fetched == fetch_runs(archs[a], query, runs, epoch)
                  written == IF write
                             THEN alt_write_columns(fetched, AltColumns(query),
                                                    PassRows(runs), epoch)
                             ELSE fetched
                  rest == system_fold(guard_release(b.locks, a, query),
                                      [archs EXCEPT ![a] = written],
                                      query, epoch, write, a + 1)
              IN IF ~b.ok
                 THEN [locks |-> b.locks, archs |-> archs, items |-> {}, ok |-> FALSE,
                       calls |-> <<>>]
                 ELSE [rest EXCEPT
                        !.items = @ \cup {<<a, i>> : i \in PassRows(runs)},
                        !.calls = <<FetchCall("fetch", a, FALSE)>>
                                  \o runs_calls(archs[a], query, runs, 1) \o @]

\* The rows of column A in every archetype.
AllRows(archs) ==
    UNION {{<<a, i>> : i \in 0..(len(archs[a]) - 1)} : a \in ArchIds}

\* The rows every component of the query accepts: their archetype has the
\* columns and no skip_item of the tuple holds.
Due(archs, query) ==
    {r \in AllRows(archs) :
        /\ \A p \in DOMAIN query.parts : query.parts[p].type \in DOMAIN archs[r[1]].components
        /\ ~fetch_skip_item(archs[r[1]], query, r[2])}

NoRun == [kind |-> "none"]

\* The last run of the system before the operation lastQuery records, and
\* the rows of A written since that run's ModifiedCache::get.
PreviousRun(last) ==
    IF last.kind = "run"
    THEN [kind |-> "run", handed |-> last.handed, stored |-> last.stored,
          items |-> last.items]
    ELSE last.previous

WrittenSince(last) ==
    IF last.kind = "run" THEN last.own ELSE last.since

\* The system's argument has a Modified component, and with it a
\* ModifiedCache.
HasModified(parts) ==
    \E p \in DOMAIN parts : parts[p].kind \in {"copied", "alt"}

InitS ==
    /\ debugBuild = FALSE
    /\ \E counts \in SystemCounts, parts \in SystemQueries :
        LET batch == [a \in ArchIds |->
                        BatchSpawned(ArchetypeSets[a], FirstEntity(counts, a), counts[a], 1)]
        IN /\ initCounts = counts
           /\ archetypes = batch
           /\ nextEntity = 1 + counts[1] + counts[2]
           /\ modifiedCache = [parts |-> parts, after_epoch |-> EpochStart]
           /\ lastQuery = [kind |-> "none", since |-> AllRows(batch), previous |-> NoRun]
    /\ worldEpoch = 1
    /\ nextSerial = 5
    /\ created = {}
    /\ expected = <<>>
    /\ dropped = EmptyBag
    /\ movedOut = EmptyBag
    /\ worldAlive = TRUE
    /\ panicked = FALSE
    /\ steps = 0
    /\ lastOp = NoOp
    /\ locks = NoLocks
    /\ queryRefs = <<>>
    /\ lastCall = NoCall

RunningS == ~panicked /\ steps < MaxRuns

\* A run of the system: ModifiedCache::get hands the stored baseline to the
\* query and stores the epoch of the World, then the system folds over the
\* query at the next epoch.
RunSystem(write) ==
    LET got == IF HasModified(modifiedCache.parts)
               THEN cache_get(modifiedCache, worldEpoch)
               ELSE [handed |-> modifiedCache.after_epoch, cache |-> modifiedCache]
        query == SystemQuery(got.handed)
        epoch == worldEpoch + 1
        pass == system_fold(locks, archetypes, query, epoch, write, 1)
    IN /\ RunningS
       /\ write => AltColumns(query) # {}
       /\ modifiedCache' = got.cache
       /\ worldEpoch' = epoch
       /\ archetypes' = pass.archs
       /\ locks' = pass.locks
       /\ panicked' = ~pass.ok
       /\ steps' = steps + 1
       /\ lastQuery' = [kind |-> "run", handed |-> got.handed,
                        stored |-> got.cache.after_epoch, epoch |-> epoch,
                        write |-> write, items |-> pass.items, calls |-> pass.calls,
                        due |-> Due(archetypes, query),
                        stamps |-> [c \in {d \in Columns : d[2] \in RelatesColumns(query)} |->
                                        archetypes[c[1]].components[c[2]].entity_epochs],
                        since |-> WrittenSince(lastQuery),
                        own |-> IF write THEN pass.items ELSE {},
                        previous |-> PreviousRun(lastQuery)]
       /\ UNCHANGED <<debugBuild, nextEntity, nextSerial, initCounts, created, expected,
                      dropped, movedOut, worldAlive, lastOp, queryRefs, lastCall>>

\* The rows the World writes between runs: the first of the second
\* archetype and the first two of its second chunk, or its last.
WriteRows ==
    {i \in {0, CHUNK_LEN_USIZE, CHUNK_LEN_USIZE + 1, len(archetypes[2]) - 1} :
        i < len(archetypes[2])}

\* World::get_mut::<A> on a row of the second archetype, at the next epoch.
WorldWrite(row) ==
    /\ RunningS
    /\ worldEpoch' = worldEpoch + 1
    /\ archetypes' = [archetypes EXCEPT ![2] = get_mut(@, "A", row, worldEpoch + 1)]
    /\ steps' = steps + 1
    /\ lastQuery' = [kind |-> "write", since |-> WrittenSince(lastQuery) \cup {<<2, row>>},
                     previous |-> PreviousRun(lastQuery)]
    /\ UNCHANGED <<debugBuild, nextEntity, nextSerial, initCounts, created, expected,
                   dropped, movedOut, worldAlive, panicked, lastOp, locks, queryRefs,
                   lastCall, modifiedCache>>

\* The baselines a point lookup is made with: everything, or what was
\* modified after the first epoch.
LookupBaselines == {EpochStart, 1}

\* get_one or for_one on a QueryRef of the system's query made for the call
\* and dropped after it.
LookupOne(method, entity, after_epoch) ==
    LET query == SystemQuery(after_epoch)
        ref == [query |-> query, borrowed |-> FALSE, live |-> TRUE, held |-> {}]
        epoch == worldEpoch + 1
        res == IF method = "get_one"
               THEN get_one(locks, archetypes, ref, entity, "keep")
               ELSE for_one(locks, archetypes, ref, entity)
        archs == IF method = "get_one"
                 THEN get_one_archetypes(archetypes, query, entity, epoch, res.outcome)
                 ELSE for_one_archetypes(archetypes, query, entity, epoch, res.outcome)
        advanced == IF method = "get_one" THEN res.advanced ELSE TRUE
        borrowed == method = "get_one" /\ res.borrowed
    IN /\ RunningS
       /\ ~BigWorld
       /\ archetypes' = archs
       /\ worldEpoch' = IF advanced THEN epoch ELSE worldEpoch
       /\ locks' = IF borrowed THEN query_release(res.locks, archs, query, "keep")
                   ELSE res.locks
       /\ panicked' = (res.outcome = "abort")
       /\ steps' = steps + 1
       /\ lastQuery' = [kind |-> "lookup", method |-> method, entity |-> entity,
                        after_epoch |-> after_epoch, outcome |-> res.outcome,
                        calls |-> lookup_calls(archetypes, query, entity, method,
                                               res.outcome),
                        before |-> archetypes,
                        epoch_before |-> worldEpoch,
                        locks_before |-> locks,
                        since |-> WrittenSince(lastQuery),
                        previous |-> PreviousRun(lastQuery)]
       /\ UNCHANGED <<debugBuild, nextEntity, nextSerial, initCounts, created, expected,
                      dropped, movedOut, worldAlive, lastOp, queryRefs, lastCall,
                      modifiedCache>>

\* The entities a lookup is made for: the first of each archetype, the last
\* of the second, and one the World has not spawned.
LookupEntities ==
    {archetypes[1].entities[1], archetypes[2].entities[1],
     archetypes[2].entities[len(archetypes[2])], nextEntity}

NextS ==
    \/ \E write \in BOOLEAN : RunSystem(write)
    \/ \E row \in WriteRows : WorldWrite(row)
    \/ \E method \in {"get_one", "for_one"}, entity \in LookupEntities,
          after_epoch \in LookupBaselines : LookupOne(method, entity, after_epoch)

SpecS == InitS /\ [][NextS]_vars



\* ------------------------------------------------------------ properties

Col(a, t) == archetypes[a].components[t]

Rows(a) == 0..(len(archetypes[a]) - 1)

RelocationOps == {"insert", "insert_bundle", "remove", "drop_bundle"}

RemovalOps == {"despawn"} \cup RelocationOps

\* C1: after any sequence of spawns, despawns, relocations and reserves,
\* every column of an archetype has exactly entities.capacity() entity-epoch
\* slots and exactly entities.len() initialised rows, the first len ones.
C1_ColumnsMatchEntities ==
    \A a \in ArchIds : \A t \in ArchetypeSets[a] :
        /\ DOMAIN Col(a, t).entity_epochs = 0..(archetypes[a].cap - 1)
        /\ DOMAIN Col(a, t).ptr = 0..(archetypes[a].cap - 1)
        /\ {i \in DOMAIN Col(a, t).ptr : Col(a, t).ptr[i] # Uninit} = Rows(a)

\* A reserve grew the columns of an archetype that holds rows.
C1_Witness ==
    /\ lastOp.op = "reserve"
    /\ archetypes[lastOp.src].cap > lastOp.old_cap
    /\ len(archetypes[lastOp.src]) > 0

\* C2: when every mutating call receives the advanced world epoch, each
\* column's epoch is at least every one of its chunk epochs, and each chunk
\* epoch is at least the entity epoch of every row of the chunk.
C2_EpochHierarchy ==
    \A a \in ArchIds : \A t \in ArchetypeSets[a] :
        /\ \A c \in DOMAIN Col(a, t).chunk_epochs :
                Col(a, t).epoch >= Col(a, t).chunk_epochs[c]
        /\ \A i \in Rows(a) :
                Col(a, t).chunk_epochs[chunk_idx(i)] >= Col(a, t).entity_epochs[i]

\* A despawn back-filled a row with a row written later than anything in the
\* chunk it lands in.
C2_Witness ==
    /\ lastOp.op = "despawn"
    /\ lastOp.swapped # None
    /\ \E t \in ArchetypeSets[lastOp.src] :
            Col(lastOp.src, t).chunk_epochs[chunk_idx(lastOp.row)]
                > lastOp.pre.chunk_epochs[t]

\* C3: rows are aligned across columns: the value and the entity epoch in
\* row i of every column are the ones last written for entities[i], so no
\* operation on one entity changes what is stored for another.
C3_RowsBelongToEntities ==
    \A a \in ArchIds : \A i \in Rows(a) : \A t \in ArchetypeSets[a] :
        /\ Col(a, t).ptr[i] = Expected(archetypes[a].entities[i + 1], t).value
        /\ Col(a, t).entity_epochs[i] = Expected(archetypes[a].entities[i + 1], t).epoch

\* A removal moved the last row, written after the start, into a lower row
\* of an archetype that keeps at least two rows.
C3_Witness ==
    /\ lastOp.op \in RemovalOps
    /\ lastOp.swapped # None
    /\ len(archetypes[lastOp.src]) >= 2
    /\ <<archetypes[lastOp.src].entities[lastOp.row + 1], "A">> \in DOMAIN expected

\* C4: a relocation keeps the entity epoch of every component it carries
\* over to the destination row, and the components it introduces get the
\* epoch of the operation.
C4_RelocationKeepsEpochs ==
    lastOp.op \in RelocationOps =>
        \A t \in ArchetypeSets[lastOp.dst] :
            /\ (t \in ArchetypeSets[lastOp.src] /\ t \notin lastOp.type) =>
                    Col(lastOp.dst, t).entity_epochs[lastOp.ret] = lastOp.pre.epochs[t]
            /\ t \notin ArchetypeSets[lastOp.src] =>
                    Col(lastOp.dst, t).entity_epochs[lastOp.ret] = lastOp.epoch

\* An insert carried over a component written after the start and before
\* the insert.
C4_Witness ==
    /\ lastOp.op = "insert"
    /\ lastOp.pre.epochs["A"] > 1
    /\ lastOp.pre.epochs["A"] < lastOp.epoch

\* C5: when a despawn or a relocation removes row r and r is not the last
\* row, entity_epochs[r] becomes the entity epoch the last row had and
\* chunk_epochs[r / 256] the maximum of its previous value and that epoch.
C5_BackfillEpochs ==
    (lastOp.op \in RemovalOps /\ lastOp.row # lastOp.pre.len - 1) =>
        \A t \in ArchetypeSets[lastOp.src] :
            /\ Col(lastOp.src, t).entity_epochs[lastOp.row] = lastOp.pre.last_epochs[t]
            /\ Col(lastOp.src, t).chunk_epochs[chunk_idx(lastOp.row)] =
                    Max(lastOp.pre.chunk_epochs[t], lastOp.pre.last_epochs[t])

\* A relocation took a row away and the last row, whose epoch differs,
\* filled it.
C5_Witness ==
    /\ lastOp.op \in RelocationOps
    /\ lastOp.row # lastOp.pre.len - 1
    /\ lastOp.pre.last_epochs["A"] # lastOp.pre.epochs["A"]

\* C6: despawning row r of n rows leaves n - 1 rows; if r was not the last
\* row, the entity of the last row is now at row r, its index is returned
\* and no other row moves; if r was the last row, None is returned and no
\* row moves.  The relocations report the same for their source archetype.
C6_RemovalMovesLastRow ==
    lastOp.op \in RemovalOps =>
        LET src == archetypes[lastOp.src]
            n == lastOp.pre.len
            was == lastOp.pre.entities
        IN /\ len(src) = n - 1
           /\ \A i \in 1..(n - 1) : i # lastOp.row + 1 => src.entities[i] = was[i]
           /\ IF lastOp.row # n - 1
              THEN /\ src.entities[lastOp.row + 1] = was[n]
                   /\ lastOp.swapped = EntityIdx(was[n])
              ELSE lastOp.swapped = None

\* A despawn removed a row that was not the last of three or more.
C6_Witness ==
    /\ lastOp.op = "despawn"
    /\ lastOp.pre.len >= 3
    /\ lastOp.row # lastOp.pre.len - 1

\* C7: insert of value v for entity e at source row r moves e to row
\* dst.len() (taken before the call) and returns that index; the components
\* carried over keep their values, v is stored in the new component's column
\* and the source has one row less.
C7_InsertMovesEntity ==
    lastOp.op = "insert" =>
        LET dst == archetypes[lastOp.dst]
        IN /\ lastOp.ret = lastOp.dst_len
           /\ len(dst) = lastOp.dst_len + 1
           /\ dst.entities[lastOp.ret + 1] = lastOp.entity
           /\ \A t \in ArchetypeSets[lastOp.src] :
                    Col(lastOp.dst, t).ptr[lastOp.ret] = lastOp.pre.values[t]
           /\ \A t \in lastOp.type : Col(lastOp.dst, t).ptr[lastOp.ret] = lastOp.value
           /\ len(archetypes[lastOp.src]) = lastOp.pre.len - 1

\* An insert moved an entity into an archetype that already held rows.
C7_Witness ==
    /\ lastOp.op = "insert"
    /\ lastOp.dst_len > 0
    /\ lastOp.pre.len > 1

\* The number of values stored in rows and the set of them, while the World
\* is alive.
RECURSIVE SlotsUpTo(_)
SlotsUpTo(a) ==
    IF a = 0
    THEN 0
    ELSE SlotsUpTo(a - 1) + len(archetypes[a]) * Cardinality(ArchetypeSets[a])

LiveSlots == IF worldAlive THEN SlotsUpTo(Len(ArchetypeSets)) ELSE 0

LiveTokens ==
    IF worldAlive
    THEN UNION {{Col(at[1], at[2]).ptr[i] : i \in Rows(at[1])} :
                    at \in {<<a, t>> \in ArchIds \X TypeIds : t \in ArchetypeSets[a]}}
    ELSE {}

\* C8: every value moved into an archetype is, over all operations and the
\* final drop of the archetype, either dropped exactly once or moved out to
\* the caller exactly once; a spawn followed by the despawn of the same
\* entity gives back the row count.
C8_ValuesLeaveExactlyOnce ==
    LET live == LiveTokens
        drops == BagToSet(dropped)
        outs == BagToSet(movedOut)
    IN \* no value is in two rows, dropped twice or moved out twice
       /\ Cardinality(live) = LiveSlots
       /\ \A tok \in drops : CopiesIn(tok, dropped) = 1
       /\ \A tok \in outs : CopiesIn(tok, movedOut) = 1
       \* no value left in two ways, and every value is accounted for
       /\ live \cap drops = {}
       /\ live \cap outs = {}
       /\ drops \cap outs = {}
       /\ live \cup drops \cup outs = MovedIn
       /\ lastOp.undoes_spawn # None =>
                len(archetypes[lastOp.src]) = lastOp.undoes_spawn

\* The World was dropped after a value was moved out to the caller.
C8_Witness ==
    /\ lastOp.op = "drop"
    /\ movedOut # EmptyBag
    /\ dropped # EmptyBag

\* The rows a pass handed to its closure, per archetype.
Yielded(a) ==
    UNION {lastQuery.runs[a][k].rows : k \in DOMAIN lastQuery.runs[a]}

\* C9: a Modified<Copied<T>> pass with baseline E0 driven by try_fold
\* yields row i of an archetype that has T exactly when entity_epochs[i] is
\* after E0, whatever the row count.
C9_ModifiedPassYields ==
    lastQuery.kind = "copied" =>
        \A a \in ArchIds :
            lastQuery.type \in ArchetypeSets[a] =>
                Yielded(a) = {i \in Rows(a) :
                                after(Col(a, lastQuery.type).entity_epochs[i],
                                      lastQuery.after_epoch)}

\* C10: once T of an entity was written at epoch E, every later Modified
\* pass whose baseline is before E yields the entity while it is alive and
\* has T, whatever despawns, relocations and chunk skips lie in between.
C10_WrittenRowIsYielded ==
    lastQuery.kind \in QueryKinds =>
        \A a \in ArchIds : \A i \in Rows(a) :
            (/\ lastQuery.type \in ArchetypeSets[a]
             /\ after(Expected(archetypes[a].entities[i + 1], lastQuery.type).epoch,
                      lastQuery.after_epoch))
                => i \in Yielded(a)

\* C11: insert<T>(e, v) from archetype S to S+{T} followed by remove<T>(e)
\* back to S returns exactly v and leaves every other component of e with
\* the value and the entity epoch it had before the insert.
C11_InsertRemoveRoundTrip ==
    (lastOp.op = "remove" /\ lastOp.undoes.op # "none") =>
        /\ lastOp.value = lastOp.undoes.value
        /\ archetypes[lastOp.dst].entities[lastOp.ret + 1] = lastOp.entity
        /\ \A t \in ArchetypeSets[lastOp.dst] :
                /\ Col(lastOp.dst, t).ptr[lastOp.ret] = lastOp.undoes.pre.values[t]
                /\ Col(lastOp.dst, t).entity_epochs[lastOp.ret] =
                        lastOp.undoes.pre.epochs[t]

\* An insert into a non-empty archetype was undone by a remove.
C11_Witness ==
    /\ lastOp.op = "remove"
    /\ lastOp.undoes.op # "none"
    /\ lastOp.undoes.type = lastOp.type
    /\ lastOp.row > 0

\* C12 as stated: insert_bundle(e, B) from S to S+types(B) followed by
\* drop_bundle of e back to S leaves e in S with the same values and the same
\* entity epochs for all components of S as before insert_bundle, and the
\* intermediate archetype with the row count it had before.
C12_BundleRoundTripAllOfS ==
    (lastOp.op = "drop_bundle" /\ lastOp.undoes.op # "none") =>
        /\ archetypes[lastOp.dst].entities[lastOp.ret + 1] = lastOp.entity
        /\ len(archetypes[lastOp.src]) = lastOp.undoes.dst_len
        /\ \A t \in ArchetypeSets[lastOp.dst] :
                /\ Col(lastOp.dst, t).ptr[lastOp.ret] = lastOp.undoes.pre.values[t]
                /\ Col(lastOp.dst, t).entity_epochs[lastOp.ret] =
                        lastOp.undoes.pre.epochs[t]

\* C12, amended: the round trip leaves e in S and the intermediate archetype
\* with its previous row count; a component of S that is not a type of B has
\* the value and the entity epoch it had before insert_bundle, and a
\* component of S that is a type of B has the value of B and the epoch of the
\* insert_bundle.
C12_BundleRoundTrip ==
    (lastOp.op = "drop_bundle" /\ lastOp.undoes.op # "none") =>
        /\ archetypes[lastOp.dst].entities[lastOp.ret + 1] = lastOp.entity
        /\ len(archetypes[lastOp.src]) = lastOp.undoes.dst_len
        /\ \A t \in ArchetypeSets[lastOp.dst] :
                IF t \in lastOp.undoes.type
                THEN /\ Col(lastOp.dst, t).ptr[lastOp.ret] =
                            expected[<<lastOp.entity, t>>].value
                     /\ Col(lastOp.dst, t).ptr[lastOp.ret] #
                            lastOp.undoes.pre.values[t]
                     /\ Col(lastOp.dst, t).entity_epochs[lastOp.ret] =
                            lastOp.undoes.epoch
                ELSE /\ Col(lastOp.dst, t).ptr[lastOp.ret] =
                            lastOp.undoes.pre.values[t]
                     /\ Col(lastOp.dst, t).entity_epochs[lastOp.ret] =
                            lastOp.undoes.pre.epochs[t]

\* An insert_bundle into a non-empty archetype was undone by a drop_bundle.
C12_Witness ==
    /\ lastOp.op = "drop_bundle"
    /\ lastOp.undoes.op # "none"
    /\ lastOp.undoes.dst_len > 0
    /\ lastOp.undoes.type \cap ArchetypeSets[lastOp.dst] = {}

\* The archetypes a pass goes through: not empty and not skipped.
Passed(a) ==
    /\ len(archetypes[a]) > 0
    /\ ~modified_skip_archetype(archetypes[a], lastQuery.type, lastQuery.after_epoch)

\* The chunks of an archetype that have at least one row.
Chunks(a) == 0..chunk_idx(len(archetypes[a]) - 1)

ChunkRows(a, c) == {i \in Rows(a) : chunk_idx(i) = c}

\* The runs of archetype a that called skip_chunk for chunk c, and those
\* that called skip_item for rows of chunk c.
SkipChunkRuns(a, c) ==
    {k \in DOMAIN lastQuery.runs[a] : lastQuery.runs[a][k].chunk = c}

SkipItemRuns(a, c) ==
    {k \in DOMAIN lastQuery.runs[a] :
        /\ ~lastQuery.runs[a][k].skipped
        /\ chunk_idx(lastQuery.runs[a][k].first) = c}

\* C19: in a try_fold pass, for every chunk with at least one row skip_chunk
\* is called exactly once, before any skip_item or get_item of the chunk; if
\* it returns false, skip_item is called for every row of the chunk,
\* visit_chunk exactly once if a row is handed over, and get_item exactly
\* for the rows whose skip_item is false; if it returns true, no other hook
\* is called for the chunk and no row of another chunk is passed over.
C19_ChunkProtocol ==
    lastQuery.kind \in QueryKinds =>
        \A a \in {b \in ArchIds : Passed(b)} : \A c \in Chunks(a) :
            LET runs == lastQuery.runs[a]
                data == Col(a, lastQuery.type)
            IN /\ Cardinality(SkipChunkRuns(a, c)) = 1
               /\ \A k \in SkipChunkRuns(a, c) :
                    /\ \A j \in SkipItemRuns(a, c) : k <= j
                    /\ runs[k].skipped = modified_skip_chunk(data, lastQuery.after_epoch, c)
                    /\ IF runs[k].skipped
                       THEN /\ SkipItemRuns(a, c) = {}
                            /\ \A i \in runs[k].first..(Min(len(archetypes[a]),
                                                              runs[k].next) - 1) :
                                    chunk_idx(i) = c
                       ELSE /\ UNION {runs[j].first..runs[j].last :
                                        j \in SkipItemRuns(a, c)} = ChunkRows(a, c)
                            /\ UNION {runs[j].rows : j \in SkipItemRuns(a, c)} =
                                    {i \in ChunkRows(a, c) :
                                        ~modified_skip_item(data, lastQuery.after_epoch, i)}
                            /\ Cardinality({j \in SkipItemRuns(a, c) :
                                                runs[j].visited = c}) =
                                    IF \E j \in SkipItemRuns(a, c) : runs[j].rows # {}
                                    THEN 1 ELSE 0

\* C20: the items of a pass are handed to the closure in ascending archetype
\* index and, within an archetype, in strictly ascending row index; no row
\* is handed over twice.
C20_AscendingItems ==
    lastQuery.kind \in QueryKinds =>
        \A i \in 1..(Len(lastQuery.items) - 1) :
            \/ lastQuery.items[i][1] < lastQuery.items[i + 1][1]
            \/ /\ lastQuery.items[i][1] = lastQuery.items[i + 1][1]
               /\ lastQuery.items[i][2] < lastQuery.items[i + 1][2]

\* A pass handed over several rows of one archetype and rows of another.
C20_Witness ==
    /\ lastQuery.kind \in QueryKinds
    /\ Len(lastQuery.items) >= 3
    /\ lastQuery.items[1][1] # lastQuery.items[Len(lastQuery.items)][1]

\* ------------------------------------------------- properties of QueryRefs

\* The QueryRefs that hold a borrow of the column with the access.
Holders(c, access) ==
    {q \in DOMAIN queryRefs : <<c[1], c[2], access>> \in queryRefs[q].held}

\* The accesses another QueryRef holds that conflict with the access.
Conflicts(q, acc) ==
    {o \in DOMAIN queryRefs \ {q} :
        \/ <<acc[1], acc[2], "Write">> \in queryRefs[o].held
        \/ acc[3] = "Write" /\ <<acc[1], acc[2], "Read">> \in queryRefs[o].held}

\* C13: in every reachable state of any interleaving of QueryRef operations,
\* each column is held by any number of readers or by a single writer, never
\* by a writer together with another holder.
C13_ReadersXorWriter ==
    \A c \in Columns :
        /\ Cardinality(Holders(c, "Write")) <= 1
        /\ Holders(c, "Write") # {} => Holders(c, "Read") = {}

\* C14: an attempt of a QueryRef to acquire a column that another QueryRef
\* holds for writing, or to acquire for writing a column that another
\* QueryRef holds for reading, aborts: no call takes a conflicting borrow.
C14_ConflictAborts ==
    \A acc \in lastCall.taken : Conflicts(lastCall.q, acc) = {}

\* C15: when ensure_borrow fails part-way, every column's counter has the
\* value it had before the call.
C15_FailedBorrowRestores ==
    (lastCall.op \in {"iter", "get_one"} /\ lastCall.outcome = "abort") =>
        locks = lastCall.before

\* C16: release and drop release exactly the borrows ensure_borrow acquired,
\* and iter or get_one on a QueryRef that is already borrowed acquires
\* nothing.
C16_BorrowBalance ==
    /\ lastCall.op \in {"release", "drop"} =>
            /\ lastCall.released = lastCall.held_before
            /\ lastCall.unmatched = {}
    /\ (lastCall.op \in {"iter", "get_one"} /\ lastCall.was_borrowed) =>
            /\ lastCall.taken = {}
            /\ locks = lastCall.before

\* The "borrow" and "release" entries of a log among its first n entries.
LogCount(log, kind, n) ==
    Cardinality({i \in 1..n : log[i][1] = kind})

\* C17: a try_fold pass or a for_one on a QueryRef that holds no borrows has
\* the borrows of at most one archetype at a time, releases them before it
\* borrows the next, and holds none when it returns Ok or the closure's Err;
\* on a QueryRef that is already borrowed it acquires and releases nothing.
C17_OneArchetypeAtATime ==
    (lastCall.op \in {"try_fold", "for_one"} /\ lastCall.outcome # "abort") =>
        /\ locks = lastCall.before
        /\ queryRefs[lastCall.q].held = lastCall.held_before
        /\ \A n \in 0..Len(lastCall.log) :
                LogCount(lastCall.log, "borrow", n)
                    - LogCount(lastCall.log, "release", n) \in {0, 1}
        /\ LogCount(lastCall.log, "borrow", Len(lastCall.log)) =
                LogCount(lastCall.log, "release", Len(lastCall.log))
        /\ lastCall.was_borrowed =>
                /\ lastCall.taken = {}
                /\ LogCount(lastCall.log, "borrow", Len(lastCall.log)) = 0

\* A pass over two archetypes on a QueryRef without borrows, the columns
\* read-held by another QueryRef meanwhile.
C17_Witness ==
    /\ lastCall.op = "try_fold"
    /\ ~lastCall.was_borrowed
    /\ lastCall.outcome = "Ok"
    /\ LogCount(lastCall.log, "borrow", Len(lastCall.log)) = 2
    /\ \E c \in Columns : locks[c] > 0

\* The outcomes of get_one and for_one but the abort.
OneOutcome(located, skips) ==
    IF ~located THEN "NoSuchEntity" ELSE IF skips THEN "NotSatisfied" ELSE "Item"

OtherEpochs(data, chunks, rows) ==
    [chunk_epochs |-> [c \in (DOMAIN data.chunk_epochs) \ chunks |-> data.chunk_epochs[c]],
     entity_epochs |-> [r \in (DOMAIN data.entity_epochs) \ rows |-> data.entity_epochs[r]]]

\* C21: get_mut<T>(row, epoch) sets the archetype epoch of column T, the chunk
\* epoch at row/256 and the entity epoch at row to exactly epoch, and leaves
\* every other entity epoch and chunk epoch of T, all epochs of every other
\* column, and all values and entities unchanged; get<T>(row) changes nothing.
C21_GetMutFrame ==
    /\ lastOp.op = "get_mut" =>
        LET arch == archetypes[lastOp.src]
            type == CHOOSE t \in lastOp.type : TRUE
            data == arch.components[type]
            old == lastOp.arch.components[type]
            row == lastOp.row
        IN /\ data.epoch = lastOp.epoch
           /\ data.chunk_epochs[chunk_idx(row)] = lastOp.epoch
           /\ data.entity_epochs[row] = lastOp.epoch
           /\ OtherEpochs(data, {chunk_idx(row)}, {row})
                = OtherEpochs(old, {chunk_idx(row)}, {row})
           /\ data.ptr = old.ptr
           /\ \A t \in (DOMAIN arch.components) \ {type} :
                arch.components[t] = lastOp.arch.components[t]
           /\ arch.entities = lastOp.arch.entities
           /\ lastOp.value = old.ptr[row]
    /\ lastOp.op = "get" =>
        /\ archetypes[lastOp.src] = lastOp.arch
        /\ lastOp.value
            = lastOp.arch.components[CHOOSE t \in lastOp.type : TRUE].ptr[lastOp.row]

\* A get_mut on a row of a multi-column archetype whose epochs differed from
\* the new epoch before.
C21_Witness ==
    /\ lastOp.op = "get_mut"
    /\ Cardinality(DOMAIN archetypes[lastOp.src].components) = 2
    /\ len(archetypes[lastOp.src]) >= 2
    /\ \A t \in DOMAIN lastOp.arch.components :
            lastOp.arch.components[t].epoch < lastOp.epoch

\* C22: spawn(entity, bundle, epoch) returns the previous row count, appends
\* entity at that row, stores the bundle there, stamps the new row's entity
\* epoch, its chunk epoch and the column's archetype epoch to epoch for every
\* component of the bundle, and leaves the values and entity epochs of the
\* existing rows unchanged; a spawn at the epoch of an earlier spawn into the
\* same archetype succeeds too.
C22_SpawnAppends ==
    lastOp.op = "spawn" =>
        /\ ~panicked
        /\ LET arch == archetypes[lastOp.src]
               old == lastOp.arch
               row == lastOp.ret
           IN /\ row = len(old)
              /\ arch.entities = Append(old.entities, lastOp.entity)
              /\ lastOp.type = DOMAIN arch.components
              /\ \A t \in lastOp.type :
                    LET data == arch.components[t]
                    IN /\ data.entity_epochs[row] = lastOp.epoch
                       /\ data.chunk_epochs[chunk_idx(row)] = lastOp.epoch
                       /\ data.epoch = lastOp.epoch
                       /\ data.ptr[row] = Expected(lastOp.entity, t).value
                       /\ \A r \in 0..(row - 1) :
                            /\ data.ptr[r] = old.components[t].ptr[r]
                            /\ data.entity_epochs[r] = old.components[t].entity_epochs[r]

\* A spawn into an archetype whose last row was spawned at the same epoch.
C22_Witness ==
    /\ lastOp.op = "spawn"
    /\ ~panicked
    /\ len(lastOp.arch) >= 1
    /\ \A t \in DOMAIN lastOp.arch.components :
            /\ lastOp.arch.components[t].entity_epochs[len(lastOp.arch) - 1] = lastOp.epoch
            /\ lastOp.arch.components[t].epoch = lastOp.epoch

\* C23: for every present column and every capacity cap reached through
\* reserve/grow, the chunk_epochs array has exactly ceil(cap/256) entries.
C23_ChunkEpochsLength ==
    lastOp.op \in {"reserve", "spawn"} /\ ~panicked =>
        LET arch == archetypes[lastOp.src]
        IN \A t \in DOMAIN arch.components :
            Cardinality(DOMAIN arch.components[t].chunk_epochs)
                = (arch.cap + CHUNK_LEN_USIZE - 1) \div CHUNK_LEN_USIZE

\* The entity epochs of the destination row in every destination column when
\* the relocation starts to write: after `dst.reserve(1)`.
DestinationSlot ==
    LET reserved == reserve(lastOp.dst_arch, 1)
    IN [t \in DOMAIN reserved.components |->
            reserved.components[t].entity_epochs[lastOp.ret]]

\* C26 as stated: whenever a relocation (insert, insert_bundle, remove,
\* drop_bundle) writes into a destination row, the entity epoch of that row in
\* every destination column is start() immediately before the write.
C26_DestinationSlotIsStart ==
    lastOp.op \in RelocationOps /\ ~panicked =>
        \A t \in DOMAIN DestinationSlot : DestinationSlot[t] = EpochStart

\* C26 amended: in a build with debug assertions the entity epoch of the
\* destination row is start() in every destination column before the write
\* and no relocation fails its assertion; in a build without them the slot
\* holds start() or an epoch no later than the World's epoch before the call,
\* left by the row that last occupied it.
C26_DestinationSlotIsStartInDebug ==
    lastOp.op \in RelocationOps =>
        IF debugBuild
        THEN /\ ~panicked
             /\ \A t \in DOMAIN DestinationSlot : DestinationSlot[t] = EpochStart
        ELSE \A t \in DOMAIN DestinationSlot :
                DestinationSlot[t] \in EpochStart..worldEpoch

\* A debug-build relocation into a row slot that a despawn had freed.
C26_Witness ==
    /\ lastOp.op \in RelocationOps
    /\ debugBuild
    /\ ~panicked
    /\ lastOp.ret < lastOp.dst_arch.cap
    /\ \E t \in DOMAIN lastOp.dst_arch.components :
            lastOp.dst_arch.components[t].ptr[lastOp.ret] = Uninit
    /\ lastOp.ret < initCounts[lastOp.dst]

\* ------------------------------------------------------ zero-sized columns

ZeroSized == {t \in TypeIds : LayoutSizes[t] = 0}

\* C25: for a component type of size zero no spawn, reserve/grow, relocation,
\* despawn or archetype drop calls alloc or dealloc for its column, while the
\* column's arrays have the lengths of a sized column of the same archetype,
\* a spawn gives one more row with the column's epochs stamped, a despawn
\* succeeds and drops the row's value, and a pass over the type from the
\* start() baseline yields one item per row.
C25_ZeroSizedColumns ==
    /\ \A c \in DOMAIN lastOp.heap : c[2] \in ZeroSized => lastOp.heap[c] = NoAlloc
    /\ \A a \in ArchIds : \A z \in ZeroSized \cap ArchetypeSets[a] :
            \A t \in ArchetypeSets[a] :
                LET zs == archetypes[a].components[z]
                    data == archetypes[a].components[t]
                IN /\ DOMAIN zs.entity_epochs = DOMAIN data.entity_epochs
                   /\ DOMAIN zs.chunk_epochs = DOMAIN data.chunk_epochs
    /\ \A z \in ZeroSized :
        /\ lastOp.op = "spawn" /\ z \in ArchetypeSets[lastOp.src] =>
            /\ ~panicked
            /\ len(archetypes[lastOp.src]) = len(lastOp.arch) + 1
            /\ archetypes[lastOp.src].components[z].entity_epochs[lastOp.ret]
                    = lastOp.epoch
        /\ lastOp.op = "despawn" /\ z \in ArchetypeSets[lastOp.src] =>
            /\ ~panicked
            /\ len(archetypes[lastOp.src]) = lastOp.pre.len - 1
            /\ BagIn(lastOp.pre.values[z], dropped)
        /\ lastQuery.kind # "none" =>
            (lastQuery.type = z /\ lastQuery.after_epoch = EpochStart =>
                Len(lastQuery.items)
                    = Cardinality({loc \in Locations(archetypes) :
                                    z \in ArchetypeSets[loc[1]]}))

\* A spawn that grew an archetype with a zero-sized and a sized column: the
\* sized column was reallocated.
C25_Witness ==
    /\ lastOp.op = "spawn"
    /\ ~panicked
    /\ ZeroSized \cap ArchetypeSets[lastOp.src] # {}
    /\ \E c \in DOMAIN lastOp.heap :
            /\ lastOp.heap[c].alloc_bytes > 0
            /\ lastOp.heap[c].dealloc_bytes > 0

\* ------------------------------------------------------- point lookups

\* C29: QueryRef::for_one on a QueryRef that holds no borrows borrows only
\* columns of the archetype that contains the entity, all the columns the
\* query accesses there when the lookup gets as far as the fetch, and none
\* when the entity is unknown or its archetype is skipped; on every return
\* (an item, NoSuchEntity, NotSatisfied) all borrow counters have the values
\* they had before the call; on a QueryRef that already holds its borrows
\* for_one acquires and releases none.
C29_ForOneFrame ==
    (lastCall.op = "for_one" /\ lastCall.outcome # "abort") =>
        LET loc == get_location(archetypes, lastCall.entity)
            query == queryRefs[lastCall.q].query
        IN /\ locks = lastCall.before
           /\ queryRefs[lastCall.q].held = lastCall.held_before
           /\ lastCall.released = lastCall.taken
           /\ lastCall.taken # {} =>
                /\ loc # NoLocation
                /\ ~lastCall.was_borrowed
                /\ lastCall.taken = Accesses(loc[1], query)
           /\ lastCall.taken = {} <=>
                \/ lastCall.was_borrowed
                \/ loc = NoLocation
                \/ filtered_skip_archetype(archetypes[loc[1]], query)
           /\ lastCall.outcome = "NoSuchEntity" <=> loc = NoLocation

\* A for_one that borrowed the entity's archetype, found the row not
\* modified and returned NotSatisfied, while another QueryRef holds a borrow
\* of another archetype.
C29_Witness ==
    /\ lastCall.op = "for_one"
    /\ lastCall.outcome = "NotSatisfied"
    /\ lastCall.taken # {}
    /\ \E c \in Columns :
            /\ locks[c] # 0
            /\ \A b \in lastCall.taken : b[1] # c[1]

\* The archetypes of the borrow (release) entries of a log, in log order.
LogArchetypes(log, kind) ==
    LET entries == SelectSeq(log, LAMBDA e : e[1] = kind)
    IN [i \in DOMAIN entries |-> entries[i][2]]

Ascending(seq) == \A i, j \in DOMAIN seq : i < j => seq[i] < seq[j]

Descending(seq) == \A i, j \in DOMAIN seq : i < j => seq[i] > seq[j]

HoldingCalls == {"iter", "release", "drop"}

\* C30 as stated: the borrows of a QueryRef are acquired in ascending
\* archetype order and released in descending archetype order.
C30_ReleasedInReverse ==
    lastCall.op \in HoldingCalls =>
        /\ Ascending(LogArchetypes(lastCall.log, "borrow"))
        /\ Descending(LogArchetypes(lastCall.log, "release"))

\* C30 amended: the borrows of a QueryRef are acquired in ascending archetype
\* order and released in ascending archetype order too, by release, by Drop
\* and by the guard of a failed ensure_borrow; every archetype the call
\* releases is in its log.
C30_ReleasedInAcquisitionOrder ==
    lastCall.op \in HoldingCalls =>
        /\ Ascending(LogArchetypes(lastCall.log, "borrow"))
        /\ Ascending(LogArchetypes(lastCall.log, "release"))
        /\ {b[1] : b \in lastCall.released}
                = {LogArchetypes(lastCall.log, "release")[i] :
                    i \in DOMAIN LogArchetypes(lastCall.log, "release")}
        /\ lastCall.outcome = "Ok" =>
                {b[1] : b \in lastCall.taken}
                    = {LogArchetypes(lastCall.log, "borrow")[i] :
                        i \in DOMAIN LogArchetypes(lastCall.log, "borrow")}

\* A release of the borrows of two archetypes that an iter of the same
\* QueryRef acquired.
C30_Witness ==
    /\ lastCall.op = "release"
    /\ lastCall.was_borrowed
    /\ Len(LogArchetypes(lastCall.log, "release")) = 2
    /\ lastCall.unmatched = {}


\* The rows the system's query is about: their archetype has every column
\* of the query, and the origin of a RelatesTo component points at its target.
Related(r) ==
    \A p \in DOMAIN modifiedCache.parts :
        LET part == modifiedCache.parts[p]
        IN /\ part.type \in DOMAIN archetypes[r[1]].components
           /\ part.kind = "relates_write"
                => ~part_skip_item(archetypes[r[1]], part, EpochStart, r[2])

\* C24: across consecutive runs of a system with a Modified query argument,
\* ModifiedCache::get hands out the baseline the previous run stored (the
\* start epoch at the first run) and stores the epoch of the World at this
\* run; every row written since the previous run's get is yielded by this
\* run, every yielded row is stamped after the baseline handed out, and a row
\* yielded by two consecutive runs was written in between.
C24_NoWriteMissedNoneTwice ==
    (lastQuery.kind = "run" /\ HasModified(modifiedCache.parts)) =>
        /\ lastQuery.handed = IF lastQuery.previous.kind = "run"
                              THEN lastQuery.previous.stored
                              ELSE EpochStart
        /\ lastQuery.stored = lastQuery.epoch - 1
        /\ modifiedCache.after_epoch = lastQuery.stored
        /\ \A r \in lastQuery.since : Related(r) => r \in lastQuery.items
        /\ lastQuery.items \subseteq lastQuery.due
        /\ lastQuery.previous.kind = "run"
            => (lastQuery.items \cap lastQuery.previous.items) \subseteq lastQuery.since

\* The hand-off alone: the baseline handed out is the one the previous run
\* stored, the baseline stored is the epoch of the World at the get.
C24_HandOff ==
    (lastQuery.kind = "run" /\ HasModified(modifiedCache.parts)) =>
        /\ lastQuery.handed = IF lastQuery.previous.kind = "run"
                              THEN lastQuery.previous.stored
                              ELSE EpochStart
        /\ lastQuery.stored = lastQuery.epoch - 1
        /\ modifiedCache.after_epoch = lastQuery.stored

\* The system's query has a write fetch and a chunk-skipping fetch.
WriteAndModified ==
    /\ \E p \in DOMAIN modifiedCache.parts : modifiedCache.parts[p].kind = "relates_write"
    /\ \E p \in DOMAIN modifiedCache.parts : modifiedCache.parts[p].kind = "copied"

\* C27: after a pass at a fresh epoch over a tuple of a write fetch and a
\* Modified fetch, the written column keeps the epoch hierarchy: the chunk
\* epoch of every yielded row is not older than its entity epoch, and the
\* epoch of the column is not older than any of its chunk epochs.
C27_WrittenColumnHierarchy ==
    (lastQuery.kind = "run" /\ WriteAndModified) =>
        \A t \in RelatesColumns(SystemQuery(EpochStart)) :
            /\ \A r \in lastQuery.items :
                   Col(r[1], t).chunk_epochs[chunk_idx(r[2])] >= Col(r[1], t).entity_epochs[r[2]]
            /\ \A a \in ArchIds :
                   t \in DOMAIN archetypes[a].components
                       => \A c \in DOMAIN Col(a, t).chunk_epochs :
                              Col(a, t).epoch >= Col(a, t).chunk_epochs[c]

\* C28: a get_one or for_one that ends in NotSatisfied leaves every chunk
\* epoch and every entity epoch as it was: visit_chunk is called only after
\* skip_chunk and skip_item both returned false for the row.
C28_NotSatisfiedLeavesEpochs ==
    (lastQuery.kind = "lookup" /\ lastQuery.outcome = "NotSatisfied") =>
        \A c \in Columns :
            /\ Col(c[1], c[2]).chunk_epochs
                = lastQuery.before[c[1]].components[c[2]].chunk_epochs
            /\ Col(c[1], c[2]).entity_epochs
                = lastQuery.before[c[1]].components[c[2]].entity_epochs

\* The same for for_one alone.
C28_ForOneLeavesEpochs ==
    (lastQuery.kind = "lookup" /\ lastQuery.method = "for_one") =>
        C28_NotSatisfiedLeavesEpochs


\* The chunks n rows need: ceil(n / CHUNK_LEN_USIZE).
ChunksNeeded(n) == (n + CHUNK_LEN_USIZE - 1) \div CHUNK_LEN_USIZE

\* The entity counts chunks_count is compared on.
EntityCounts == 0..(2 * CHUNK_LEN_USIZE + 1)

ChunkSlots(a, t) == Cardinality(DOMAIN Col(a, t).chunk_epochs)

\* C31 as stated: for some entity count, among them the capacities the
\* archetypes have, chunks_count returns fewer chunk-epoch slots than the
\* ceiling (entities + CHUNK_LEN - 1) / CHUNK_LEN.
C31_UnderAllocates ==
    \E entities \in EntityCounts \cup {archetypes[a].cap : a \in ArchIds} :
        chunks_count(entities) < ChunksNeeded(entities)

\* C31: chunks_count never returns fewer slots than the ceiling: it returns
\* the entity count itself, which is the ceiling for 0 and 1 entities and
\* more than the ceiling from 2 entities on; in every column of an archetype
\* the last chunk its capacity needs has a slot. chunks_count reads no
\* state, so the counts are compared once, before the first operation.
C31_NeverUnderAllocates ==
    /\ steps = 0 =>
            \A entities \in EntityCounts :
                /\ chunks_count(entities) = entities
                /\ chunks_count(entities) >= ChunksNeeded(entities)
                /\ entities >= 2 => chunks_count(entities) > ChunksNeeded(entities)
    /\ \A c \in Columns :
            \/ archetypes[c[1]].cap = 0
            \/ (ChunksNeeded(archetypes[c[1]].cap) - 1) \in DOMAIN Col(c[1], c[2]).chunk_epochs

\* A column grew past one chunk and holds more slots than its capacity needs.
C31_Witness ==
    /\ lastOp.op \in {"reserve", "spawn"}
    /\ ~panicked
    /\ \E c \in Columns :
            /\ c[1] = lastOp.src
            /\ archetypes[c[1]].cap > CHUNK_LEN_USIZE
            /\ ChunkSlots(c[1], c[2]) = chunks_count(archetypes[c[1]].cap)
            /\ ChunkSlots(c[1], c[2]) > ChunksNeeded(archetypes[c[1]].cap)


\* C32: chunk-epoch indexing is in bounds: in every present column, for every
\* capacity of at least 1 reached through reserve/grow and every row index
\* r below the capacity, chunk_idx(r) is an index of chunk_epochs; the rows
\* are below the capacity, so no operation or fetch hook on a row indexes
\* past the array.
C32_ChunkIndexInBounds ==
    \A c \in Columns :
        /\ len(archetypes[c[1]]) <= archetypes[c[1]].cap
        /\ archetypes[c[1]].cap >= 1 =>
            LET slots == ChunkSlots(c[1], c[2])
            IN /\ DOMAIN Col(c[1], c[2]).chunk_epochs = 0..(slots - 1)
               /\ \A r \in 0..(archetypes[c[1]].cap - 1) :
                    chunk_idx(r) \in 0..(slots - 1)

\* An operation on a row of the second chunk, in a column that has grown.
C32_Witness ==
    /\ ~panicked
    /\ lastOp.op \in {"get_mut", "set", "despawn", "spawn", "insert", "remove"}
    /\ lastOp.row # None
    /\ lastOp.row >= CHUNK_LEN_USIZE
    /\ chunk_idx(lastOp.row) >= 1
    /\ archetypes[lastOp.src].cap > CHUNK_LEN_USIZE


\* C33: Archetype::reserve leaves, in every present column, the values of the
\* first len rows, the entity epochs and chunk epochs that existed and the
\* epoch of the column as they were, and the entities too; every entity-epoch
\* and chunk-epoch slot it adds holds the start epoch.
C33_ReserveFrame ==
    (lastOp.op = "reserve" /\ ~panicked) =>
        LET old == lastOp.arch
            new == archetypes[lastOp.src]
        IN /\ new.entities = old.entities
           /\ new.cap >= old.cap
           /\ DOMAIN new.components = DOMAIN old.components
           /\ \A t \in DOMAIN old.components :
                LET was == old.components[t]
                    now == new.components[t]
                IN /\ now.epoch = was.epoch
                   /\ \A i \in 0..(len(old) - 1) : now.ptr[i] = was.ptr[i]
                   /\ \A i \in DOMAIN was.entity_epochs :
                        now.entity_epochs[i] = was.entity_epochs[i]
                   /\ \A c \in DOMAIN was.chunk_epochs :
                        now.chunk_epochs[c] = was.chunk_epochs[c]
                   /\ DOMAIN now.entity_epochs = 0..(new.cap - 1)
                   /\ \A i \in DOMAIN now.entity_epochs \ DOMAIN was.entity_epochs :
                        now.entity_epochs[i] = EpochStart
                   /\ \A c \in DOMAIN now.chunk_epochs \ DOMAIN was.chunk_epochs :
                        now.chunk_epochs[c] = EpochStart

\* A reserve grew an archetype that holds rows stamped after the start.
C33_Witness ==
    /\ lastOp.op = "reserve"
    /\ ~panicked
    /\ archetypes[lastOp.src].cap > lastOp.old_cap
    /\ len(lastOp.arch) >= 1
    /\ \E t \in DOMAIN lastOp.arch.components :
            /\ lastOp.arch.components[t].epoch # EpochStart
            /\ lastOp.arch.components[t].entity_epochs[0] # EpochStart
            /\ DOMAIN archetypes[lastOp.src].components[t].chunk_epochs
                    # DOMAIN lastOp.arch.components[t].chunk_epochs


\* The accesses a query declares through access(): the pairs (type, access).
Declared(query) ==
    {<<ty, part_access(query.parts[p], ty)>> :
        ty \in {t \in TypeIds : \E q \in DOMAIN query.parts :
                                    part_access(query.parts[q], t) # "None"},
        p \in DOMAIN query.parts} \ (TypeIds \X {"None"})

\* The accesses a query requests through access_archetype.
Requested(query) ==
    {<<access_archetype(query)[i][1], access_archetype(query)[i][2]>> :
        i \in DOMAIN query.parts}

\* Two queries conflict: for some type one declares Write and the other
\* declares Read or Write.
Conflict(query, other) ==
    \E d \in Declared(query), e \in Declared(other) :
        d[1] = e[1] /\ "Write" \in {d[2], e[2]}

\* The query types of the source.
QueryTypes ==
    {Reader, Writer, [parts |-> <<RelatesTo(1)>>, after_epoch |-> EpochStart, with |-> {}]}

WriteFetchAlone ==
    /\ modifiedCache.parts # <<>>
    /\ \A p \in DOMAIN modifiedCache.parts : modifiedCache.parts[p].kind = "relates_write"

\* C35: a pass of the RelatesTo<&mut R> write fetch at epoch E leaves the
\* OriginComponent<R> column of every archetype it goes over with epoch E,
\* yields the rows related to the target, leaves the entity epoch of each of
\* them and the chunk epoch of each chunk that holds one at E, and leaves the
\* entity epochs of the rows without a relation to the target as they were.
C35_WriteFetchPass ==
    (lastQuery.kind = "run" /\ WriteFetchAlone) =>
        /\ lastQuery.items = {r \in AllRows(archetypes) : Related(r)}
        /\ \A c \in DOMAIN lastQuery.stamps :
            /\ len(archetypes[c[1]]) > 0 => Col(c[1], c[2]).epoch = lastQuery.epoch
            /\ \A i \in Rows(c[1]) :
                IF <<c[1], i>> \in lastQuery.items
                THEN /\ Col(c[1], c[2]).entity_epochs[i] = lastQuery.epoch
                     /\ Col(c[1], c[2]).chunk_epochs[chunk_idx(i)] = lastQuery.epoch
                ELSE Col(c[1], c[2]).entity_epochs[i] = lastQuery.stamps[c][i]

\* A second pass over an archetype of two chunks, each with a related row
\* and a row that is not related.
C35_Witness ==
    /\ lastQuery.kind = "run"
    /\ WriteFetchAlone
    /\ lastQuery.previous.kind = "run"
    /\ \E r \in lastQuery.items : chunk_idx(r[2]) = 0
    /\ \E r \in lastQuery.items : chunk_idx(r[2]) = 1
    /\ \E r \in AllRows(archetypes) :
            /\ r \notin lastQuery.items
            /\ chunk_idx(r[2]) = 1
            /\ Col(r[1], "B").entity_epochs[r[2]] < lastQuery.epoch


\* The calls the last pass or lookup made on its fetches.
Calls == IF lastQuery.kind \in {"run", "lookup"} THEN lastQuery.calls ELSE <<>>

C36_LookupWitness ==
    /\ lastQuery.kind = "lookup"
    /\ \E k \in DOMAIN Calls : Calls[k].call = "get_item"


\* C37: a builder method releases every borrow the QueryRef it consumes
\* holds and returns a QueryRef that holds none and is not borrowed.
C37_BuilderReleases ==
    (lastCall.op \in BuilderMethods /\ ~panicked) =>
        /\ lastCall.held_before \subseteq lastCall.released
        /\ queryRefs[lastCall.q].held = {}
        /\ ~queryRefs[lastCall.q].borrowed
        /\ \A b \in lastCall.held_before :
                LET c == <<b[1], b[2]>>
                IN /\ (b[3] = "Write" /\ lastCall.before[c] = WriteLocked) => locks[c] = 0
                   /\ (b[3] = "Read" /\ lastCall.before[c] > 0)
                        => locks[c] = lastCall.before[c] - 1

\* A builder method consumed a QueryRef that held borrows on both archetypes.
C37_Witness ==
    /\ lastCall.op \in BuilderMethods
    /\ ~panicked
    /\ lastCall.was_borrowed
    /\ \E b \in lastCall.held_before : b[1] = 1
    /\ \E b \in lastCall.held_before : b[1] = 2
    /\ queryRefs[lastCall.q].held = {}


\* ------------------------------------------------------- Archetype::matches

\* Longest iterator of type ids handed to matches.
MaxIds == 3

\* Type ids an iterator can yield: those of the World and a foreign one.
IterIds == TypeIds \cup {"C"}

\* The iterators: every sequence of at most MaxIds ids, repeats included.
IdIterators == UNION {[1..n -> IterIds] : n \in 0..MaxIds}

\* Iterator::size_hint of an iterator that yields n items: a lower bound that
\* is not above n and an upper bound that is absent or not below n.
SizeHints(n) ==
    {[lower |-> l, upper |-> u] : l \in 0..n, u \in (n..MaxIds) \cup {None}}

\* The try_fold of matches: the number of ids when the set contains every
\* one of them, None at the first id it does not contain.
RECURSIVE matches_count(_, _, _, _)
matches_count(types, type_ids, k, count) ==
    IF k > Len(type_ids) THEN count
    ELSE IF type_ids[k] \in types
         THEN matches_count(types, type_ids, k + 1, count + 1)
         ELSE None

\* Archetype::matches.
matches(types, type_ids, hint) ==
    LET set_len == Cardinality(types)
    IN IF hint.upper = None
       THEN /\ hint.lower <= set_len
            /\ matches_count(types, type_ids, 1, 0) = set_len
       ELSE /\ hint.lower <= set_len
            /\ hint.upper >= set_len
            /\ matches_count(types, type_ids, 1, 0) = set_len

\* A call of Archetype::matches on archetype a. matches reads the type set
\* only, so a behaviour holds one call.
Matches(a, type_ids, hint) ==
    /\ ~panicked
    /\ lastOp.op # "matches"
    /\ lastOp' = [NoOp EXCEPT !.op = "matches", !.src = a, !.value = type_ids,
                              !.pre = hint,
                              !.ret = matches(ArchetypeSets[a], type_ids, hint)]
    /\ UNCHANGED <<archetypes, worldEpoch, debugBuild, nextEntity, nextSerial,
                   initCounts, created, expected, dropped, movedOut, worldAlive,
                   panicked, steps, lastQuery>>
    /\ UNCHANGED qvars

NextM ==
    \E a \in ArchIds, type_ids \in IdIterators :
        \E hint \in SizeHints(Len(type_ids)) : Matches(a, type_ids, hint)

SpecM == Init /\ [][NextM]_vars

\* The ids an iterator yields, taken as a set.
YieldedSet(type_ids) == {type_ids[k] : k \in DOMAIN type_ids}

\* C40: matches returns true if and only if the ids the iterator yields,
\* taken as a set, are the archetype's component type set.
C40_MatchesIffSameSet ==
    lastOp.op = "matches" =>
        (lastOp.ret <=> YieldedSet(lastOp.value) = ArchetypeSets[lastOp.src])

\* C40, as the code has it: matches returns true if and only if every
\* yielded id is in the type set and the number of ids yielded, repeats
\* counted, is the size of the type set.
C40_MatchesCounts ==
    lastOp.op = "matches" =>
        (lastOp.ret <=> /\ YieldedSet(lastOp.value) \subseteq ArchetypeSets[lastOp.src]
                        /\ Len(lastOp.value) = Cardinality(ArchetypeSets[lastOp.src]))

\* matches answered true for an iterator that repeats an id and leaves out
\* another id of the type set.
C40_Witness ==
    /\ lastOp.op = "matches"
    /\ lastOp.ret = TRUE
    /\ YieldedSet(lastOp.value) # ArchetypeSets[lastOp.src]
    /\ Len(lastOp.value) > Cardinality(YieldedSet(lastOp.value))


\* The lookup before this state found no location for its entity.
NoSuchEntityLookup ==
    lastQuery.kind = "lookup" /\ lastQuery.outcome = "NoSuchEntity"

\* C38: a point lookup that returns NoSuchEntity leaves the world epoch
\* counter, every column's borrow counter and every archetype, chunk and
\* entity epoch as they were before the call, for get_one and for for_one.
C38_NoSuchEntityLeavesState ==
    NoSuchEntityLookup =>
        /\ worldEpoch = lastQuery.epoch_before
        /\ locks = lastQuery.locks_before
        /\ archetypes = lastQuery.before

\* C38 for get_one, and what for_one does leave alone: the borrow counters
\* and the archetypes are as before, and get_one leaves the epoch counter.
C38_NoSuchEntityFrame ==
    NoSuchEntityLookup =>
        /\ locks = lastQuery.locks_before
        /\ archetypes = lastQuery.before
        /\ lastQuery.method = "get_one" => worldEpoch = lastQuery.epoch_before
        /\ lastQuery.method = "for_one" => worldEpoch = lastQuery.epoch_before + 1

\* for_one found no location and the epoch counter of the World advanced.
C38_Witness ==
    /\ NoSuchEntityLookup
    /\ lastQuery.method = "for_one"
    /\ worldEpoch # lastQuery.epoch_before


\* The archetype of column c as the last operation found it.
ArchetypeBefore(c) ==
    IF lastOp.op = "drop" THEN archetypes[c[1]]
    ELSE IF lastOp.op \in {"spawn", "reserve"} THEN lastOp.arch
    ELSE lastOp.dst_arch

\* The block the last operation freed for column c is the one grow allocated
\* last: the column had a capacity and the bytes are size * that capacity.
FreedBlockWasAllocated(c) ==
    lastOp.heap[c].deallocs > 0 =>
        /\ lastOp.heap[c].deallocs = 1
        /\ ArchetypeBefore(c).cap # 0
        /\ lastOp.heap[c].dealloc_bytes = LayoutSizes[c[2]] * ArchetypeBefore(c).cap

\* The block the last operation allocated for column c has size * the
\* capacity the archetype has now, and a capacity only changes with it.
AllocatedBlockIsColumn(c) ==
    /\ lastOp.heap[c].allocs > 0 =>
        /\ lastOp.heap[c].allocs = 1
        /\ lastOp.heap[c].alloc_bytes = LayoutSizes[c[2]] * archetypes[c[1]].cap
        /\ lastOp.heap[c].deallocs = IF ArchetypeBefore(c).cap # 0 THEN 1 ELSE 0
    /\ (LayoutSizes[c[2]] # 0 /\ archetypes[c[1]].cap # ArchetypeBefore(c).cap) =>
            lastOp.heap[c].allocs = 1

\* C39: for every sized column, each block freed by grow or by the drop of
\* the archetype was allocated by grow with the same byte size, size * the
\* capacity of that time, and is freed once; the drop of an archetype of
\* capacity 0 frees nothing.
C39_AllocationPairing ==
    \A c \in DOMAIN lastOp.heap :
        /\ FreedBlockWasAllocated(c)
        /\ AllocatedBlockIsColumn(c)

\* C39 without the archetypes that never grew: every block freed by grow, and
\* by the drop of an archetype that has a capacity, is the block of the column.
C39_PairingWithCapacity ==
    \A c \in DOMAIN lastOp.heap :
        /\ (lastOp.op = "drop" => archetypes[c[1]].cap # 0) => FreedBlockWasAllocated(c)
        /\ AllocatedBlockIsColumn(c)

\* The World was dropped with a sized column in an archetype that never grew.
C39_Witness ==
    /\ lastOp.op = "drop"
    /\ \E c \in DOMAIN lastOp.heap :
            /\ LayoutSizes[c[2]] # 0
            /\ archetypes[c[1]].cap = 0
            /\ lastOp.heap[c].deallocs = 1


====
